---- MODULE Spec2Model ----
(***************************************************************************)
(* bypasser: WireGuard configuration manager (package bypasser).           *)
(*                                                                         *)
(* Strings are sequences of one-character strings.  A file content c is    *)
(* held as strings.Split(c, "\n"): a non-empty sequence of newline-free    *)
(* lines (the content "" is << <<>> >>, "a\n" is << "a", "" >>).  This is   *)
(* one-to-one with the byte content; concatenation, TrimRight and Join     *)
(* are defined below by what they do to the bytes.                         *)
(***************************************************************************)
EXTENDS Integers, Sequences, FiniteSets, TLC

VARIABLES
  wgDir,      \* does the base directory (Config.WireGuardDir) exist
  peersDir,   \* does its peers subdirectory exist
  vpnFiles,   \* VPN name -> content of bp-<vpn>.conf, NoFile when absent
  peerFiles,  \* <<vpn, peer>> -> content of peers/bp-<vpn>-<peer>.conf
  last,       \* the most recent manager call: operation, arguments, error, Report
  calls,      \* how many manager calls were made
  drawn,      \* how the initial base directory was put together (DrawnInit)
  ret         \* the most recent direct call of a package function and its result

vars == <<wgDir, peersDir, vpnFiles, peerFiles, last, calls, drawn, ret>>

-----------------------------------------------------------------------------
(* Go strings package, on character sequences                              *)

Digits == <<"0","1","2","3","4","5","6","7","8","9">>
LowerLetters == <<"a","b","c","d","e","f","g","h","i","j","k","l","m","n","o","p","q","r","s","t","u","v","w","x","y","z">>
UpperLetters == <<"A","B","C","D","E","F","G","H","I","J","K","L","M","N","O","P","Q","R","S","T","U","V","W","X","Y","Z">>

Range(s) == {s[i] : i \in DOMAIN s}

\* unicode.IsSpace on the ASCII range
IsSpace(c) == c \in {" ", "\t", "\n", "\r", "\f"}

RECURSIVE TrimLeftSpace(_)
TrimLeftSpace(s) ==
  IF s # <<>> /\ IsSpace(s[1]) THEN TrimLeftSpace(Tail(s)) ELSE s

RECURSIVE TrimRightSpace(_)
TrimRightSpace(s) ==
  IF s # <<>> /\ IsSpace(s[Len(s)]) THEN TrimRightSpace(SubSeq(s, 1, Len(s) - 1)) ELSE s

\* strings.TrimSpace
TrimSpace(s) == TrimRightSpace(TrimLeftSpace(s))

RECURSIVE TrimLeftSet(_, _)
TrimLeftSet(s, cut) ==
  IF s # <<>> /\ s[1] \in cut THEN TrimLeftSet(Tail(s), cut) ELSE s

RECURSIVE TrimRightSet(_, _)
TrimRightSet(s, cut) ==
  IF s # <<>> /\ s[Len(s)] \in cut THEN TrimRightSet(SubSeq(s, 1, Len(s) - 1), cut) ELSE s

\* strings.Trim(s, cutset)
Trim(s, cut) == TrimRightSet(TrimLeftSet(s, cut), cut)

\* strings.HasPrefix, strings.HasSuffix
HasPrefix(s, p) == Len(s) >= Len(p) /\ SubSeq(s, 1, Len(p)) = p

HasSuffix(s, p) == Len(s) >= Len(p) /\ SubSeq(s, Len(s) - Len(p) + 1, Len(s)) = p

\* strings.TrimPrefix
TrimPrefix(s, p) == IF HasPrefix(s, p) THEN SubSeq(s, Len(p) + 1, Len(s)) ELSE s

\* strings.Contains
Contains(s, sub) ==
  \E i \in 0..(Len(s) - Len(sub)) : SubSeq(s, i + 1, i + Len(sub)) = sub

RECURSIVE IndexFrom(_, _, _)
IndexFrom(s, c, i) ==
  IF i > Len(s) THEN 0 ELSE IF s[i] = c THEN i ELSE IndexFrom(s, c, i + 1)

\* strings.Index(s, c) for a one-character c, 1-based; 0 when absent (Go: -1)
Index(s, c) == IndexFrom(s, c, 1)

RECURSIVE SplitOn(_, _)
\* strings.Split(s, c) for a one-character separator c
SplitOn(s, c) ==
  LET i == Index(s, c)
  IN IF i = 0 THEN <<s>>
     ELSE <<SubSeq(s, 1, i - 1)>> \o SplitOn(SubSeq(s, i + 1, Len(s)), c)

ToLowerChar(c) ==
  IF \E i \in 1..26 : UpperLetters[i] = c
  THEN LowerLetters[CHOOSE i \in 1..26 : UpperLetters[i] = c]
  ELSE c

\* a comparison of keys that tells upper case from lower case
EqualFold_Exact(a, b) == a = b

\* strings.EqualFold on ASCII
EqualFold(a, b) ==
  /\ Len(a) = Len(b)
  /\ \A i \in 1..Len(a) : ToLowerChar(a[i]) = ToLowerChar(b[i])

DigitVal(c) == (CHOOSE i \in 1..10 : Digits[i] = c) - 1

RECURSIVE DigitsToNat(_, _)
DigitsToNat(s, acc) ==
  IF s = <<>> THEN acc ELSE DigitsToNat(Tail(s), acc * 10 + DigitVal(s[1]))

\* Atoi reading text that is not a number as 0
Atoi_GarbageIsZero(s) ==
  IF s = <<>> \/ \E i \in 1..Len(s) : s[i] \notin Range(Digits)
  THEN [ok |-> TRUE, n |-> 0]
  ELSE [ok |-> TRUE, n |-> DigitsToNat(s, 0)]

\* strconv.Atoi: optional sign, then one or more decimal digits
Atoi(s) ==
  LET signed == s # <<>> /\ s[1] \in {"+", "-"}
      body == IF signed THEN Tail(s) ELSE s
  IN IF body = <<>> \/ \E i \in 1..Len(body) : body[i] \notin Range(Digits)
     THEN [ok |-> FALSE, n |-> 0]
     ELSE [ok |-> TRUE,
           n |-> IF signed /\ s[1] = "-" THEN 0 - DigitsToNat(body, 0)
                 ELSE DigitsToNat(body, 0)]

RECURSIVE NatToDigits(_)
NatToDigits(n) ==
  IF n < 10 THEN <<Digits[n + 1]>> ELSE NatToDigits(n \div 10) \o <<Digits[(n % 10) + 1]>>

\* fmt's %d verb
Itoa(n) == IF n < 0 THEN <<"-">> \o NatToDigits(0 - n) ELSE NatToDigits(n)

-----------------------------------------------------------------------------
(* File contents as line sequences                                         *)

\* the content "" (and the marker-free empty file)
EmptyContent == << <<>> >>

\* a + b on contents: the last line of a continues into the first line of b
Concat(a, b) ==
  SubSeq(a, 1, Len(a) - 1) \o <<a[Len(a)] \o b[1]>> \o Tail(b)

RECURSIVE TrimRightNewlines(_)
\* AddPeer and removePeerBlock keeping the trailing newlines they find
TrimRightNewlines_Keeps(content) == content

\* strings.TrimRight(content, "\n"): a content ends in "\n" exactly when its
\* last line is empty and is not its only line
TrimRightNewlines(c) ==
  IF Len(c) > 1 /\ c[Len(c)] = <<>>
  THEN TrimRightNewlines(SubSeq(c, 1, Len(c) - 1))
  ELSE c

\* strings.Join(lines, "\n"): the content whose lines they are; no lines give ""
Join(lines) == IF lines = <<>> THEN EmptyContent ELSE lines

\* the content "\n"
Newline == << <<>>, <<>> >>

-----------------------------------------------------------------------------
(* parse.go                                                                *)

\* isSectionHeader
isSectionHeader(line) == HasPrefix(line, <<"[">>) /\ HasSuffix(line, <<"]">>)

IsCommentOrBlank(line) ==
  line = <<>> \/ HasPrefix(line, <<"#">>) \/ HasPrefix(line, <<";">>)

splitKV_KeepsSpaces(line) ==
  LET i == Index(line, "=")
      key == SubSeq(line, 1, i - 1)
      val == SubSeq(line, i + 1, Len(line))
  IN IF i = 0 \/ key = <<>>
     THEN [key |-> <<>>, val |-> <<>>, ok |-> FALSE]
     ELSE [key |-> key, val |-> val, ok |-> TRUE]

\* splitKV
splitKV(line) ==
  LET i == Index(line, "=")
      key == TrimSpace(SubSeq(line, 1, i - 1))
      val == TrimSpace(SubSeq(line, i + 1, Len(line)))
  IN IF i = 0 \/ key = <<>>
     THEN [key |-> <<>>, val |-> <<>>, ok |-> FALSE]
     ELSE [key |-> key, val |-> val, ok |-> TRUE]

SectionOf(line) == TrimSpace(Trim(line, {"[", "]"}))

RECURSIVE firstSectionValueFrom(_, _, _, _, _)
firstSectionValueFrom(lines, i, section, sectionName, key) ==
  IF i > Len(lines) THEN <<>>
  ELSE LET line == TrimSpace(lines[i])
       IN IF IsCommentOrBlank(line)
          THEN firstSectionValueFrom(lines, i + 1, section, sectionName, key)
          ELSE IF isSectionHeader(line)
          THEN firstSectionValueFrom(lines, i + 1, SectionOf(line), sectionName, key)
          ELSE IF section # sectionName
          THEN firstSectionValueFrom(lines, i + 1, section, sectionName, key)
          ELSE LET kv == splitKV(line)
               IN IF kv.ok /\ EqualFold(kv.key, key)
                  THEN kv.val
                  ELSE firstSectionValueFrom(lines, i + 1, section, sectionName, key)

\* firstSectionValue
firstSectionValue(content, sectionName, key) ==
  firstSectionValueFrom(content, 1, <<>>, sectionName, key)

RECURSIVE allSectionValuesFrom(_, _, _, _, _)
allSectionValuesFrom(lines, i, section, sectionName, key) ==
  IF i > Len(lines) THEN <<>>
  ELSE LET line == TrimSpace(lines[i])
       IN IF IsCommentOrBlank(line)
          THEN allSectionValuesFrom(lines, i + 1, section, sectionName, key)
          ELSE IF isSectionHeader(line)
          THEN allSectionValuesFrom(lines, i + 1, SectionOf(line), sectionName, key)
          ELSE IF section # sectionName
          THEN allSectionValuesFrom(lines, i + 1, section, sectionName, key)
          ELSE LET kv == splitKV(line)
               IN IF kv.ok /\ EqualFold(kv.key, key)
                  THEN <<kv.val>> \o allSectionValuesFrom(lines, i + 1, section, sectionName, key)
                  ELSE allSectionValuesFrom(lines, i + 1, section, sectionName, key)

\* allSectionValues
allSectionValues(content, sectionName, key) ==
  allSectionValuesFrom(content, 1, <<>>, sectionName, key)

\* parseBPAddress
parseBPAddress(prefix, addr) ==
  LET slash == Index(addr, "/")
      base == IF slash > 0 THEN SubSeq(addr, 1, slash - 1) ELSE addr
      want == prefix \o <<".">>
      parts == SplitOn(TrimPrefix(base, want), ".")
      v == Atoi(parts[1])
      h == Atoi(parts[2])
  IN IF ~HasPrefix(base, want) \/ Len(parts) # 2 \/ ~v.ok \/ ~h.ok
     THEN [ok |-> FALSE, vpnOctet |-> 0, hostOctet |-> 0]
     ELSE [ok |-> TRUE, vpnOctet |-> v.n, hostOctet |-> h.n]

\* normalizeCIDR
normalizeCIDR_NeverAppends(addr, mask) == addr

normalizeCIDR(addr, mask) ==
  IF Contains(addr, <<"/">>) THEN addr ELSE addr \o <<"/">> \o Itoa(mask)

TagPrefix == <<"#"," ","b","p","-","m","a","n","a","g","e","d",":">>

PeerHeader == <<"[","P","e","e","r","]">>

\* peerBlockMatches: the tag test, then the AllowedIPs test on each line of the block
peerBlockMatches(block, metaLine, ref, allowedIP) ==
  \/ /\ metaLine # <<>>
     /\ Contains(metaLine, <<"v","p","n","=">> \o ref.VPN)
     /\ Contains(metaLine, <<"p","e","e","r","=">> \o ref.Peer)
  \/ \E n \in 1..Len(block) :
       LET kv == splitKV(TrimSpace(block[n]))
       IN /\ kv.ok
          /\ EqualFold(kv.key, <<"A","l","l","o","w","e","d","I","P","s">>)
          /\ TrimSpace(kv.val) = TrimSpace(allowedIP)

RECURSIVE BlockEnd(_, _)
\* removePeerBlock: j, the first section header at or after line j, or one past the end
BlockEnd(lines, j) ==
  IF j <= Len(lines) /\ ~isSectionHeader(TrimSpace(lines[j]))
  THEN BlockEnd(lines, j + 1)
  ELSE j

\* removePeerBlock giving up the blank and comment lines at the end of a
\* removed block
TailStart_KeepsNothing(lines, k, i, acc) == acc

RECURSIVE TailStart(_, _, _, _)
\* removePeerBlock: tailStart, scanning k = j-1 down to i+1 over blank and comment lines
TailStart(lines, k, i, acc) ==
  IF k > i /\ IsCommentOrBlank(TrimSpace(lines[k]))
  THEN TailStart(lines, k - 1, i, k)
  ELSE acc

RECURSIVE removePeerBlockLoop(_, _, _, _, _, _)
removePeerBlockLoop(lines, i, out, removed, ref, allowedIP) ==
  IF i > Len(lines) THEN [out |-> out, removed |-> removed]
  ELSE IF TrimSpace(lines[i]) # PeerHeader
  THEN removePeerBlockLoop(lines, i + 1, Append(out, lines[i]), removed, ref, allowedIP)
  ELSE
    LET prev == IF i > 1 THEN TrimSpace(lines[i - 1]) ELSE <<>>
        metaLine == IF i > 1 /\ HasPrefix(prev, TagPrefix) THEN prev ELSE <<>>
        j == BlockEnd(lines, i + 1)
        block == SubSeq(lines, i, j - 1)
    IN IF peerBlockMatches(block, metaLine, ref, allowedIP)
       THEN
         LET out1 == IF metaLine # <<>> /\ out # <<>> /\ TrimSpace(out[Len(out)]) = metaLine
                     THEN SubSeq(out, 1, Len(out) - 1) ELSE out
             out2 == IF out1 # <<>> /\ TrimSpace(out1[Len(out1)]) = <<>>
                     THEN SubSeq(out1, 1, Len(out1) - 1) ELSE out1
             tailStart == TailStart(lines, j - 1, i, j)
             out3 == out2 \o SubSeq(lines, tailStart, j - 1)
         IN removePeerBlockLoop(lines, j, out3, TRUE, ref, allowedIP)
       ELSE removePeerBlockLoop(lines, i + 1, Append(out, lines[i]), removed, ref, allowedIP)

\* removePeerBlock returning the joined lines with the ending they came with
removePeerBlock_KeepsEnding(content, ref, allowedIP) ==
  LET r == removePeerBlockLoop(content, 1, <<>>, FALSE, ref, allowedIP)
  IN [content |-> Join(r.out), removed |-> r.removed]

removePeerBlock_NoFinalNewline(content, ref, allowedIP) ==
  LET r == removePeerBlockLoop(content, 1, <<>>, FALSE, ref, allowedIP)
  IN [content |-> TrimRightNewlines(Join(r.out)), removed |-> r.removed]

\* removePeerBlock
removePeerBlock(content, ref, allowedIP) ==
  LET r == removePeerBlockLoop(content, 1, <<>>, FALSE, ref, allowedIP)
      trimmed == TrimRightNewlines(Join(r.out))
  IN [content |-> IF trimmed # EmptyContent THEN Concat(trimmed, Newline) ELSE trimmed,
      removed |-> r.removed]

-----------------------------------------------------------------------------
(* Config (DefaultConfig)                                                  *)

InterfacePrefix == <<"b","p","-">>
SubnetPrefix == <<"6","9",".","0">>
MinPort == 55107
MaxPort == 55207
InterfaceMask == 24
PeerMask == 32
\* BP_ENDPOINT_HOST unset
EndpointHost == <<>>
\* BP_PUBLIC_IFACE unset
PublicInterface == <<>>

\* the highest vpn octet and the highest host octet the allocators hand out
MaxVPNOctet == 254
MaxHostOctet == 254

\* Config.InterfaceName
InterfaceName(vpn) == InterfacePrefix \o vpn

\* the paths the manager touches: the two directories, <dir>/bp-<vpn>.conf and
\* <dir>/peers/bp-<vpn>-<peer>.conf
WireGuardDir == [kind |-> "wgdir", vpn |-> <<>>, peer |-> <<>>]
PeersDir == [kind |-> "peersdir", vpn |-> <<>>, peer |-> <<>>]
VPNConfigPath(vpn) == [kind |-> "vpnconf", vpn |-> vpn, peer |-> <<>>]
PeerConfigPath(vpn, peer) == [kind |-> "peerconf", vpn |-> vpn, peer |-> peer]
\* Config.SysctlFile, and the text SetupServer writes to it
SysctlFile == [kind |-> "sysctl", vpn |-> <<>>, peer |-> <<>>]
SysctlText == <<<<"n","e","t",".","i","p","v","4",".","i","p","_","f","o","r","w","a","r","d"," ","="," ","1">>, <<"n","e","t",".","i","p","v","6",".","c","o","n","f",".","a","l","l",".","f","o","r","w","a","r","d","i","n","g"," ","="," ","1">>, <<>>>>

-----------------------------------------------------------------------------
(* Names, files and the collaborators' answers                             *)

VPNNames == {<<"h">>, <<"w">>}
PeerNames == {<<"a">>, <<"a","b">>}
InvalidNames == {<<"a","-","B">>}

\* no file at a path (a content always has at least one line)
NoFile == <<>>

\* KeyGenerator: the keys wg hands out (base64, ending in "=")
PrivateKeys == {<<"k","A","=">>}
PresharedKeys == {<<"s","K","=">>}
DerivePublicKey(priv) == <<"P">> \o priv

\* detectDefaultInterface and detectServerIPv4 when they succeed
DetectedInterface == <<"e","t","h","0">>
DetectedHost == <<"1","0",".","9",".","8",".","7">>

\* System: which commands exist, whether the process is root, which runs fail
Systems ==
  { [has |-> {}, root |-> FALSE, failing |-> {}],
    [has |-> {"systemctl"}, root |-> TRUE, failing |-> {}] }

\* what the collaborators answer during one call: everything works (under each
\* System), or one of key generation, interface detection, host detection fails
Envs ==
  { [keysOK |-> TRUE, ifaceOK |-> TRUE, hostOK |-> TRUE, sys |-> s] : s \in Systems }
  \cup { [keysOK |-> FALSE, ifaceOK |-> TRUE, hostOK |-> TRUE, sys |-> CHOOSE s \in Systems : s.root],
         [keysOK |-> TRUE, ifaceOK |-> FALSE, hostOK |-> TRUE, sys |-> CHOOSE s \in Systems : s.root] }

-----------------------------------------------------------------------------
(* Report                                                                  *)

NoReport == [changes |-> <<>>, warnings |-> <<>>, runtime |-> <<>>]

\* Report.addChange
addChange(rep, action, path) ==
  [rep EXCEPT !.changes = Append(@, [action |-> action, path |-> path])]

\* Report.warnf
warnf(rep, w) == [rep EXCEPT !.warnings = Append(@, w)]

\* Report.addRuntime
addRuntime(rep, act) == [rep EXCEPT !.runtime = Append(@, act)]

\* ValidateName with the pattern ^[a-z0-9]*$, which the empty name matches
ValidateName_AllowsEmpty(name) ==
  \A i \in 1..Len(name) : name[i] \in Range(LowerLetters) \cup Range(Digits)

\* ValidateName: nameRE = ^[a-z0-9]+$
ValidateName(name) ==
  /\ name # <<>>
  /\ \A i \in 1..Len(name) : name[i] \in Range(LowerLetters) \cup Range(Digits)

\* PeerRef.String
PeerRefString(p) == p.VPN \o <<":">> \o p.Peer

NoPeerRef == [ok |-> FALSE, VPN |-> <<>>, Peer |-> <<>>]

\* ParsePeerRef without the ValidateName call on the peer side
ParsePeerRef_PeerUnchecked(s) ==
  LET i == Index(s, ":")
      vpn == SubSeq(s, 1, i - 1)
      peer == SubSeq(s, i + 1, Len(s))
  IN IF i = 0 THEN NoPeerRef
     ELSE IF vpn = <<>> \/ peer = <<>> THEN NoPeerRef
     ELSE IF ~ValidateName(vpn) THEN NoPeerRef
     ELSE [ok |-> TRUE, VPN |-> vpn, Peer |-> peer]

\* ParsePeerRef: the split at the first ':' (Index gives its position, 0 when
\* there is none)
ParsePeerRef(s) ==
  LET i == Index(s, ":")
      vpn == SubSeq(s, 1, i - 1)
      peer == SubSeq(s, i + 1, Len(s))
  IN IF i = 0 THEN NoPeerRef
     ELSE IF vpn = <<>> \/ peer = <<>> THEN NoPeerRef
     ELSE IF ~ValidateName(vpn) THEN NoPeerRef
     ELSE IF ~ValidateName(peer) THEN NoPeerRef
     ELSE [ok |-> TRUE, VPN |-> vpn, Peer |-> peer]

-----------------------------------------------------------------------------
(* Rendering                                                               *)

renderVPNConfig_TwoPorts(vpnName, ifaceName, privateKey, port, vpnOctet, publicIface) ==
  << <<"#"," ","b","p","-","m","a","n","a","g","e","d",":"," ","v","p","n","=">> \o vpnName,
     <<"[","I","n","t","e","r","f","a","c","e","]">>,
     <<"P","r","i","v","a","t","e","K","e","y"," ","="," ">> \o privateKey,
     <<"L","i","s","t","e","n","P","o","r","t"," ","="," ">> \o Itoa(port),
     <<"L","i","s","t","e","n","P","o","r","t"," ","="," ">> \o Itoa(port),
     <<"A","d","d","r","e","s","s"," ","="," ">> \o SubnetPrefix \o <<".">> \o Itoa(vpnOctet) \o <<".","1","/">> \o Itoa(InterfaceMask),
     <<>> >>

\* renderVPNConfig
renderVPNConfig(vpnName, ifaceName, privateKey, port, vpnOctet, publicIface) ==
  LET meshCIDR == SubnetPrefix \o <<".">> \o Itoa(vpnOctet) \o <<".","0","/">> \o Itoa(InterfaceMask)
      addr == SubnetPrefix \o <<".">> \o Itoa(vpnOctet) \o <<".","1","/">> \o Itoa(InterfaceMask)
      postUp == <<"i","p","t","a","b","l","e","s"," ","-","t"," ","n","a","t"," ","-","A"," ","P","O","S","T","R","O","U","T","I","N","G"," ","-","s"," ">> \o meshCIDR \o <<" ","-","o"," ">> \o publicIface
                \o <<" ","-","j"," ","M","A","S","Q","U","E","R","A","D","E",";"," ","i","p","t","a","b","l","e","s"," ","-","A"," ","I","N","P","U","T"," ","-","p"," ","u","d","p"," ","-","m"," ","u","d","p"," ","-","-","d","p","o","r","t"," ">> \o Itoa(port)
                \o <<" ","-","j"," ","A","C","C","E","P","T",";"," ","i","p","t","a","b","l","e","s"," ","-","A"," ","F","O","R","W","A","R","D"," ","-","i"," ">> \o ifaceName
                \o <<" ","-","j"," ","A","C","C","E","P","T",";"," ","i","p","t","a","b","l","e","s"," ","-","A"," ","F","O","R","W","A","R","D"," ","-","o"," ">> \o ifaceName \o <<" ","-","j"," ","A","C","C","E","P","T",";">>
      postDown == <<"i","p","t","a","b","l","e","s"," ","-","t"," ","n","a","t"," ","-","D"," ","P","O","S","T","R","O","U","T","I","N","G"," ","-","s"," ">> \o meshCIDR \o <<" ","-","o"," ">> \o publicIface
                \o <<" ","-","j"," ","M","A","S","Q","U","E","R","A","D","E",";"," ","i","p","t","a","b","l","e","s"," ","-","D"," ","I","N","P","U","T"," ","-","p"," ","u","d","p"," ","-","m"," ","u","d","p"," ","-","-","d","p","o","r","t"," ">> \o Itoa(port)
                \o <<" ","-","j"," ","A","C","C","E","P","T",";"," ","i","p","t","a","b","l","e","s"," ","-","D"," ","F","O","R","W","A","R","D"," ","-","i"," ">> \o ifaceName
                \o <<" ","-","j"," ","A","C","C","E","P","T",";"," ","i","p","t","a","b","l","e","s"," ","-","D"," ","F","O","R","W","A","R","D"," ","-","o"," ">> \o ifaceName \o <<" ","-","j"," ","A","C","C","E","P","T",";">>
  IN << <<"#"," ","b","p","-","m","a","n","a","g","e","d",":"," ","v","p","n","=">> \o vpnName,
        <<"[","I","n","t","e","r","f","a","c","e","]">>,
        <<"P","r","i","v","a","t","e","K","e","y"," ","="," ">> \o privateKey,
        <<"L","i","s","t","e","n","P","o","r","t"," ","="," ">> \o Itoa(port),
        <<"A","d","d","r","e","s","s"," ","="," ">> \o addr,
        <<"P","o","s","t","U","p"," ","="," ">> \o postUp,
        <<"P","o","s","t","D","o","w","n"," ","="," ">> \o postDown,
        <<>> >>

\* renderServerPeerBlock writing the tag line under the [Peer] header
renderServerPeerBlock_TagBelowHeader(vpnName, peerName, peerPub, psk, allowedIP) ==
  << <<"[","P","e","e","r","]">>,
     <<"#"," ","b","p","-","m","a","n","a","g","e","d",":"," ","v","p","n","=">> \o vpnName \o <<",","p","e","e","r","=">> \o peerName,
     <<"P","u","b","l","i","c","K","e","y"," ","="," ">> \o peerPub,
     <<"P","r","e","s","h","a","r","e","d","K","e","y"," ","="," ">> \o psk,
     <<"A","l","l","o","w","e","d","I","P","s"," ","="," ">> \o allowedIP,
     <<>> >>

\* renderServerPeerBlock
renderServerPeerBlock(vpnName, peerName, peerPub, psk, allowedIP) ==
  << <<"#"," ","b","p","-","m","a","n","a","g","e","d",":"," ","v","p","n","=">> \o vpnName \o <<",","p","e","e","r","=">> \o peerName,
     <<"[","P","e","e","r","]">>,
     <<"P","u","b","l","i","c","K","e","y"," ","="," ">> \o peerPub,
     <<"P","r","e","s","h","a","r","e","d","K","e","y"," ","="," ">> \o psk,
     <<"A","l","l","o","w","e","d","I","P","s"," ","="," ">> \o allowedIP,
     <<>> >>

\* renderClientPeerConfig
renderClientPeerConfig(vpnName, peerName, peerPriv, peerAddr, serverPub, psk, meshCIDR, endpointHost, port) ==
  << <<"#"," ","b","p","-","m","a","n","a","g","e","d",":"," ","v","p","n","=">> \o vpnName \o <<",","p","e","e","r","=">> \o peerName,
     <<"[","I","n","t","e","r","f","a","c","e","]">>,
     <<"P","r","i","v","a","t","e","K","e","y"," ","="," ">> \o peerPriv,
     <<"A","d","d","r","e","s","s"," ","="," ">> \o peerAddr,
     <<>>,
     <<"[","P","e","e","r","]">>,
     <<"P","u","b","l","i","c","K","e","y"," ","="," ">> \o serverPub,
     <<"P","r","e","s","h","a","r","e","d","K","e","y"," ","="," ">> \o psk,
     <<"A","l","l","o","w","e","d","I","P","s"," ","="," ">> \o meshCIDR,
     <<"E","n","d","p","o","i","n","t"," ","="," ">> \o endpointHost \o <<":">> \o Itoa(port),
     <<"P","e","r","s","i","s","t","e","n","t","K","e","e","p","a","l","i","v","e"," ","="," ","2","5">>,
     <<>> >>

-----------------------------------------------------------------------------
(* The filesystem under the base directory                                 *)

\* the disk as one value: do the directories exist, and the content at each
\* VPN config path and peer config path (NoFile when absent)
Disk == [wg |-> wgDir, peers |-> peersDir, vpn |-> vpnFiles, peer |-> peerFiles]

EmptyDisk ==
  [wg |-> FALSE, peers |-> FALSE,
   vpn |-> [v \in VPNNames |-> NoFile],
   peer |-> [r \in VPNNames \X PeerNames |-> NoFile]]

\* os.ReadFile / os.Stat of a config path
ReadPath(fs, path) ==
  IF path.kind = "vpnconf" THEN fs.vpn[path.vpn]
  ELSE IF path.kind = "sysctl" THEN fs.sysctl
  ELSE fs.peer[<<path.vpn, path.peer>>]

\* os.MkdirAll(filepath.Dir(path)) then os.WriteFile(path, data)
WritePath(fs, path, data) ==
  IF path.kind = "vpnconf"
  THEN [fs EXCEPT !.wg = TRUE, !.vpn[path.vpn] = data]
  ELSE IF path.kind = "sysctl"
  THEN [fs EXCEPT !.sysctl = data]
  ELSE [fs EXCEPT !.wg = TRUE, !.peers = TRUE, !.peer[<<path.vpn, path.peer>>] = data]

\* os.Remove of a config path
RemovePath(fs, path) ==
  IF path.kind = "vpnconf"
  THEN [fs EXCEPT !.vpn[path.vpn] = NoFile]
  ELSE [fs EXCEPT !.peer[<<path.vpn, path.peer>>] = NoFile]

\* Manager.ensureDir (nothing but the manager writes under the base directory,
\* so the path is a directory whenever it exists)
ensureDir(fs, rep, dir) ==
  IF (dir = WireGuardDir /\ fs.wg) \/ (dir = PeersDir /\ fs.peers)
  THEN [fs |-> fs, rep |-> rep]
  ELSE [fs |-> IF dir = WireGuardDir THEN [fs EXCEPT !.wg = TRUE]
               ELSE [fs EXCEPT !.wg = TRUE, !.peers = TRUE],
        rep |-> addChange(rep, "created", dir)]

\* writeFile without the comparison with the old content: an existing file is
\* always rewritten and reported as updated
writeFile_NoCompare(fs, rep, path, data) ==
  LET old == ReadPath(fs, path)
  IN [fs |-> WritePath(fs, path, data),
      rep |-> addChange(rep, IF old # NoFile THEN "updated" ELSE "created", path)]

\* Manager.writeFile
writeFile(fs, rep, path, data) ==
  LET old == ReadPath(fs, path)
  IN IF old # NoFile /\ old = data
     THEN [fs |-> fs, rep |-> rep]
     ELSE [fs |-> WritePath(fs, path, data),
           rep |-> addChange(rep, IF old # NoFile THEN "updated" ELSE "created", path)]

\* Manager.ListVPNs: the names n with a file bp-<n>.conf in the base directory
ListVPNs(fs) == IF fs.wg THEN {v \in VPNNames : fs.vpn[v] # NoFile} ELSE {}

\* the base name of Config.PeerConfigPath
PeerFileName(vpn, peer) == InterfaceName(vpn) \o <<"-">> \o peer \o <<".","c","o","n","f">>

\* the ref ListPeers reads back from a file name of the peers directory
PeerFileRef(name, prefix) ==
  LET base == SubSeq(name, Len(prefix) + 1, Len(name) - 5)
      i == Index(base, "-")
  IN IF ~HasPrefix(name, prefix) \/ ~HasSuffix(name, <<".","c","o","n","f">>)
     THEN [ok |-> FALSE, VPN |-> <<>>, Peer |-> <<>>]
     ELSE IF i <= 1 \/ i = Len(base) THEN [ok |-> FALSE, VPN |-> <<>>, Peer |-> <<>>]
     ELSE [ok |-> TRUE, VPN |-> SubSeq(base, 1, i - 1), Peer |-> SubSeq(base, i + 1, Len(base))]

PeerFileNames(fs) ==
  {PeerFileName(r[1], r[2]) : r \in {q \in VPNNames \X PeerNames : fs.peer[q] # NoFile}}

ListPeers_PrefixWithoutDash(fs) ==
  IF fs.peers
  THEN {<<e.VPN, e.Peer>> :
          e \in {x \in {PeerFileRef(n, <<"b","p">>) : n \in PeerFileNames(fs)} : x.ok}}
  ELSE {}

\* Manager.ListPeers: the refs parsed from the file names bp-<vpn>-<peer>.conf
\* of the peers directory
ListPeers(fs) ==
  IF fs.peers
  THEN {<<e.VPN, e.Peer>> :
          e \in {x \in {PeerFileRef(n, InterfacePrefix) : n \in PeerFileNames(fs)} : x.ok}}
  ELSE {}

-----------------------------------------------------------------------------
(* Allocation                                                              *)

Interface == <<"I","n","t","e","r","f","a","c","e">>
Peer == <<"P","e","e","r">>

RECURSIVE maxPortOver(_, _, _)
\* nextAvailablePort: the loop over ListVPNs, maxPort its running maximum
maxPortOver(fs, vpns, maxPort) ==
  IF vpns = {} THEN maxPort
  ELSE LET vpn == CHOOSE v \in vpns : TRUE
           p == firstSectionValue(fs.vpn[vpn], Interface, <<"L","i","s","t","e","n","P","o","r","t">>)
           n == Atoi(p)
       IN maxPortOver(fs, vpns \ {vpn},
                      IF p # <<>> /\ n.ok /\ n.n > maxPort THEN n.n ELSE maxPort)

\* nextAvailablePort without the scan
nextAvailablePort_Lowest(fs) == [ok |-> TRUE, n |-> MinPort]

\* nextAvailablePort handing out the highest port in use instead of the one
\* after it
nextAvailablePort_NoIncrement(fs) ==
  LET maxPort == maxPortOver(fs, ListVPNs(fs), MinPort - 1)
      next == IF maxPort < MinPort THEN MinPort ELSE maxPort
  IN IF next > MaxPort THEN [ok |-> FALSE, n |-> 0] ELSE [ok |-> TRUE, n |-> next]

\* nextAvailablePort starting over at MinPort when the range is used up
nextAvailablePort_Wrap(fs) ==
  LET maxPort == maxPortOver(fs, ListVPNs(fs), MinPort - 1)
      next == IF maxPort + 1 < MinPort THEN MinPort ELSE maxPort + 1
  IN IF next > MaxPort THEN [ok |-> TRUE, n |-> MinPort] ELSE [ok |-> TRUE, n |-> next]

\* Manager.nextAvailablePort
nextAvailablePort(fs) ==
  LET maxPort == maxPortOver(fs, ListVPNs(fs), MinPort - 1)
      next == IF maxPort + 1 < MinPort THEN MinPort ELSE maxPort + 1
  IN IF next > MaxPort THEN [ok |-> FALSE, n |-> 0] ELSE [ok |-> TRUE, n |-> next]

RECURSIVE highestOctetOver(_, _, _)
\* nextVPNSubnetOctet: the loop over ListVPNs, highest its running maximum
highestOctetOver(fs, vpns, highest) ==
  IF vpns = {} THEN highest
  ELSE LET vpn == CHOOSE v \in vpns : TRUE
           addr == firstSectionValue(fs.vpn[vpn], Interface, <<"A","d","d","r","e","s","s">>)
           a == parseBPAddress(SubnetPrefix, addr)
       IN highestOctetOver(fs, vpns \ {vpn},
                           IF addr # <<>> /\ a.ok /\ a.vpnOctet > highest
                           THEN a.vpnOctet ELSE highest)

\* nextVPNSubnetOctet counting the VPN files instead of scanning their octets
nextVPNSubnetOctet_Count(fs) ==
  LET next == Cardinality(ListVPNs(fs)) + 1
  IN IF next > MaxVPNOctet THEN [ok |-> FALSE, n |-> 0] ELSE [ok |-> TRUE, n |-> next]

\* nextVPNSubnetOctet with its running maximum started at 1 instead of 0
nextVPNSubnetOctet_FloorOne(fs) ==
  LET next == highestOctetOver(fs, ListVPNs(fs), 1) + 1
  IN IF next > MaxVPNOctet THEN [ok |-> FALSE, n |-> 0] ELSE [ok |-> TRUE, n |-> next]

\* Manager.nextVPNSubnetOctet
nextVPNSubnetOctet(fs) ==
  LET next == highestOctetOver(fs, ListVPNs(fs), 0) + 1
  IN IF next > MaxVPNOctet THEN [ok |-> FALSE, n |-> 0] ELSE [ok |-> TRUE, n |-> next]

RECURSIVE highestHostOver(_, _, _, _)
\* nextPeerHostOctet: the loop over the AllowedIPs values
highestHostOver(ips, i, vpnOctet, highest) ==
  IF i > Len(ips) THEN highest
  ELSE LET a == parseBPAddress(SubnetPrefix, ips[i])
       IN highestHostOver(ips, i + 1, vpnOctet,
                          IF a.ok /\ a.vpnOctet = vpnOctet /\ a.hostOctet > highest
                          THEN a.hostOctet ELSE highest)

\* nextPeerHostOctet with its running maximum started at 0, so that the
\* server's host octet 1 is handed to the first peer
nextPeerHostOctet_FromOne(vpnConfig, vpnOctet) ==
  LET next == highestHostOver(allSectionValues(vpnConfig, Peer, <<"A","l","l","o","w","e","d","I","P","s">>), 1, vpnOctet, 0) + 1
  IN IF next > MaxHostOctet THEN [ok |-> FALSE, n |-> 0] ELSE [ok |-> TRUE, n |-> next]

\* nextPeerHostOctet testing the highest octet in use, not the candidate,
\* against the top of the range
nextPeerHostOctet_ChecksHighest(vpnConfig, vpnOctet) ==
  LET highest == highestHostOver(allSectionValues(vpnConfig, Peer, <<"A","l","l","o","w","e","d","I","P","s">>), 1, vpnOctet, 1)
  IN IF highest > MaxHostOctet THEN [ok |-> FALSE, n |-> 0] ELSE [ok |-> TRUE, n |-> highest + 1]

\* nextPeerHostOctet counting the AllowedIPs entries of every vpn octet
nextPeerHostOctet_AnyVPN(vpnConfig, vpnOctet) ==
  LET ips == allSectionValues(vpnConfig, Peer, <<"A","l","l","o","w","e","d","I","P","s">>)
      hosts == {parseBPAddress(SubnetPrefix, ips[i]).hostOctet :
                  i \in {k \in DOMAIN ips : parseBPAddress(SubnetPrefix, ips[k]).ok}} \cup {1}
      next == (CHOOSE m \in hosts : \A x \in hosts : x <= m) + 1
  IN IF next > MaxHostOctet THEN [ok |-> FALSE, n |-> 0] ELSE [ok |-> TRUE, n |-> next]

\* Manager.nextPeerHostOctet
nextPeerHostOctet(vpnConfig, vpnOctet) ==
  LET next == highestHostOver(allSectionValues(vpnConfig, Peer, <<"A","l","l","o","w","e","d","I","P","s">>), 1, vpnOctet, 1) + 1
  IN IF next > MaxHostOctet THEN [ok |-> FALSE, n |-> 0] ELSE [ok |-> TRUE, n |-> next]

-----------------------------------------------------------------------------
(* External commands                                                       *)

maybeRun_IgnoresRoot(sys, rep, description, cmd0, cmd, iface) ==
  LET act == [description |-> description, command |-> cmd, iface |-> iface]
  IN IF cmd0 \notin sys.has
     THEN addRuntime(rep, act @@ [status |-> "suggested", message |-> "command not available"])
     ELSE IF cmd \in sys.failing \/ cmd0 \in sys.failing
     THEN addRuntime(rep, act @@ [status |-> "suggested", message |-> "run failed"])
     ELSE addRuntime(rep, act @@ [status |-> "executed", message |-> "ok"])

\* Manager.maybeRun: cmd is the command line, cmd0 its program
maybeRun(sys, rep, description, cmd0, cmd, iface) ==
  LET act == [description |-> description, command |-> cmd, iface |-> iface]
  IN IF cmd0 \notin sys.has
     THEN addRuntime(rep, act @@ [status |-> "suggested", message |-> "command not available"])
     ELSE IF ~sys.root
     THEN addRuntime(rep, act @@ [status |-> "suggested", message |-> "not running as root"])
     ELSE IF cmd \in sys.failing \/ cmd0 \in sys.failing
     THEN addRuntime(rep, act @@ [status |-> "suggested", message |-> "run failed"])
     ELSE addRuntime(rep, act @@ [status |-> "executed", message |-> "ok"])

\* Manager.maybeVPNEnable
maybeVPNEnable(sys, rep, vpn) ==
  IF "systemctl" \in sys.has
  THEN maybeRun(sys, rep, "Enable/start WireGuard interface", "systemctl", "systemctl enable --now", InterfaceName(vpn))
  ELSE maybeRun(sys, rep, "Bring up WireGuard interface", "wg-quick", "wg-quick up", InterfaceName(vpn))

\* Manager.maybeVPNDisable
maybeVPNDisable(sys, rep, vpn) ==
  IF "systemctl" \in sys.has
  THEN maybeRun(sys, rep, "Disable/stop WireGuard interface", "systemctl", "systemctl disable --now", InterfaceName(vpn))
  ELSE maybeRun(sys, rep, "Bring down WireGuard interface", "wg-quick", "wg-quick down", InterfaceName(vpn))

\* Manager.maybeVPNRestart
maybeVPNRestart(sys, rep, vpn) ==
  IF "systemctl" \in sys.has
  THEN maybeRun(sys, rep, "Restart WireGuard interface", "systemctl", "systemctl restart", InterfaceName(vpn))
  ELSE maybeRun(sys,
                maybeRun(sys, rep, "Restart WireGuard interface", "wg-quick", "wg-quick down", InterfaceName(vpn)),
                "Restart WireGuard interface", "wg-quick", "wg-quick up", InterfaceName(vpn))

-----------------------------------------------------------------------------
(* Manager operations: each gives the disk after the call, the report and  *)
(* the error ("" for nil)                                                  *)

Result(fs, rep, err) == [fs |-> fs, rep |-> rep, err |-> err]

SetupServerOp_AlwaysWrites(fs, env, sysctlFile) ==
  LET d1 == ensureDir(fs, NoReport, WireGuardDir)
      d2 == ensureDir(d1.fs, d1.rep, PeersDir)
      rep == addChange(d2.rep, IF ReadPath(d2.fs, SysctlFile) # NoFile THEN "updated" ELSE "created",
                       SysctlFile)
  IN IF sysctlFile = <<>> THEN Result(d2.fs, warnf(d2.rep, "skipping sysctl forwarding file setup"), "")
     ELSE Result(WritePath(d2.fs, sysctlFile, SysctlText),
                 maybeRun(env.sys, rep, "Apply sysctl forwarding settings", "sysctl", "sysctl --system", <<>>),
                 "")

\* Manager.SetupServer; sysctlFile is Config.SysctlFile, <<>> when it is empty
SetupServerOp(fs, env, sysctlFile) ==
  LET d1 == ensureDir(fs, NoReport, WireGuardDir)
      d2 == ensureDir(d1.fs, d1.rep, PeersDir)
      w == writeFile(d2.fs, d2.rep, sysctlFile, SysctlText)
  IN IF sysctlFile = <<>> THEN Result(d2.fs, warnf(d2.rep, "skipping sysctl forwarding file setup"), "")
     ELSE Result(w.fs,
                 maybeRun(env.sys, w.rep, "Apply sysctl forwarding settings", "sysctl", "sysctl --system", <<>>),
                 "")

\* Manager.AddVPN
AddVPNOp(fs, name, env, privateKey) ==
  IF ~ValidateName(name) THEN Result(fs, NoReport, "invalid vpn name")
  ELSE
    LET d1 == ensureDir(fs, NoReport, WireGuardDir)
        d2 == ensureDir(d1.fs, d1.rep, PeersDir)
        confPath == VPNConfigPath(name)
        port == nextAvailablePort(d2.fs)
        vpnOctet == nextVPNSubnetOctet(d2.fs)
        iface == IF PublicInterface # <<>> THEN PublicInterface ELSE DetectedInterface
        conf == renderVPNConfig(name, InterfaceName(name), privateKey, port.n, vpnOctet.n, iface)
        w == writeFile(d2.fs, d2.rep, confPath, conf)
    IN IF ReadPath(d2.fs, confPath) # NoFile THEN Result(d2.fs, d2.rep, "vpn already exists")
       ELSE IF ~port.ok THEN Result(d2.fs, d2.rep, "no available port")
       ELSE IF ~vpnOctet.ok THEN Result(d2.fs, d2.rep, "no available vpn subnet octet")
       ELSE IF PublicInterface = <<>> /\ ~env.ifaceOK
       THEN Result(d2.fs, d2.rep, "could not determine default interface")
       ELSE IF ~env.keysOK THEN Result(d2.fs, d2.rep, "key generation failed")
       ELSE Result(w.fs, maybeVPNEnable(env.sys, w.rep, name), "")

\* Manager.DeleteVPN
DeleteVPNOp(fs, name, env) ==
  IF ~ValidateName(name) THEN Result(fs, NoReport, "invalid vpn name")
  ELSE
    LET confPath == VPNConfigPath(name)
        rep1 == maybeVPNDisable(env.sys, NoReport, name)
        fs1 == RemovePath(fs, confPath)
        rep2 == addChange(rep1, "deleted", confPath)
        count == Cardinality({r \in ListPeers(fs1) : r[1] = name})
    IN IF ReadPath(fs, confPath) = NoFile THEN Result(fs, NoReport, "vpn does not exist")
       ELSE Result(fs1, IF count > 0 THEN warnf(rep2, "peer files still exist") ELSE rep2, "")

\* Manager.AddPeer
AddPeerOp(fs, vpnName, peerName, env, peerPriv, psk) ==
  IF ~ValidateName(vpnName) THEN Result(fs, NoReport, "invalid vpn name")
  ELSE IF ~ValidateName(peerName) THEN Result(fs, NoReport, "invalid peer name")
  ELSE
    LET d == ensureDir(fs, NoReport, PeersDir)
        vpnPath == VPNConfigPath(vpnName)
        vpnContent == ReadPath(d.fs, vpnPath)
        peerPath == PeerConfigPath(vpnName, peerName)
        serverPriv == firstSectionValue(vpnContent, Interface, <<"P","r","i","v","a","t","e","K","e","y">>)
        serverPub == DerivePublicKey(serverPriv)
        listenPortStr == firstSectionValue(vpnContent, Interface, <<"L","i","s","t","e","n","P","o","r","t">>)
        listenPort == Atoi(listenPortStr)
        addr == firstSectionValue(vpnContent, Interface, <<"A","d","d","r","e","s","s">>)
        a == parseBPAddress(SubnetPrefix, addr)
        nextHost == nextPeerHostOctet(vpnContent, a.vpnOctet)
        peerPub == DerivePublicKey(peerPriv)
        detect == EndpointHost = <<>>
        endpointHost == IF ~detect THEN EndpointHost
                        ELSE IF env.hostOK THEN DetectedHost ELSE <<"<","s","e","r","v","e","r","-","p","u","b","l","i","c","-","i","p",">">>
        rep1 == IF detect /\ ~env.hostOK
                THEN warnf(d.rep, "could not detect server public IPv4 automatically")
                ELSE d.rep
        peerAddr == SubnetPrefix \o <<".">> \o Itoa(a.vpnOctet) \o <<".">> \o Itoa(nextHost.n)
                    \o <<"/">> \o Itoa(PeerMask)
        meshCIDR == SubnetPrefix \o <<".">> \o Itoa(a.vpnOctet) \o <<".","0","/">> \o Itoa(InterfaceMask)
        serverBlock == renderServerPeerBlock(vpnName, peerName, peerPub, psk, peerAddr)
        updatedVPN == Concat(Concat(TrimRightNewlines(vpnContent), << <<>>, <<>>, <<>> >>), serverBlock)
        w1 == writeFile(d.fs, rep1, vpnPath, updatedVPN)
        clientConf == renderClientPeerConfig(vpnName, peerName, peerPriv, peerAddr, serverPub,
                                             psk, meshCIDR, endpointHost, listenPort.n)
        w2 == writeFile(w1.fs, w1.rep, peerPath, clientConf)
    IN IF vpnContent = NoFile THEN Result(d.fs, d.rep, "vpn does not exist")
       ELSE IF ReadPath(d.fs, peerPath) # NoFile THEN Result(d.fs, d.rep, "peer already exists")
       ELSE IF serverPriv = <<>> THEN Result(d.fs, d.rep, "missing Interface.PrivateKey")
       ELSE IF ~env.keysOK THEN Result(d.fs, d.rep, "key generation failed")
       ELSE IF listenPortStr = <<>> THEN Result(d.fs, d.rep, "missing Interface.ListenPort")
       ELSE IF ~listenPort.ok THEN Result(d.fs, d.rep, "invalid ListenPort")
       ELSE IF addr = <<>> THEN Result(d.fs, d.rep, "missing Interface.Address")
       ELSE IF ~a.ok THEN Result(d.fs, d.rep, "invalid Interface.Address")
       ELSE IF ~nextHost.ok THEN Result(d.fs, d.rep, "no available peer addresses")
       ELSE Result(w2.fs, maybeVPNRestart(env.sys, w2.rep, vpnName), "")

\* DeletePeer removing the client file only, the server-side block staying
\* behind in the VPN's file
DeletePeerOp_NeedsBlock(fs, vpnName, peerName, env) ==
  IF ~ValidateName(vpnName) THEN Result(fs, NoReport, "invalid vpn name")
  ELSE IF ~ValidateName(peerName) THEN Result(fs, NoReport, "invalid peer name")
  ELSE
    LET peerPath == PeerConfigPath(vpnName, peerName)
        peerContent == ReadPath(fs, peerPath)
        peerAddr == normalizeCIDR(firstSectionValue(peerContent, Interface, <<"A","d","d","r","e","s","s">>), PeerMask)
        vpnPath == VPNConfigPath(vpnName)
        vpnContent == ReadPath(fs, vpnPath)
        rm == removePeerBlock(vpnContent, [VPN |-> vpnName, Peer |-> peerName], peerAddr)
        w == writeFile(fs, NoReport, vpnPath, rm.content)
        rep2 == addChange(w.rep, "deleted", peerPath)
    IN IF peerContent = NoFile THEN Result(fs, NoReport, "peer does not exist")
       ELSE IF vpnContent = NoFile THEN Result(fs, NoReport, "vpn does not exist")
       ELSE IF ~rm.removed THEN Result(fs, NoReport, "peer block was not found")
       ELSE Result(RemovePath(w.fs, peerPath), maybeVPNRestart(env.sys, rep2, vpnName), "")

DeletePeerOp_KeepsBlock(fs, vpnName, peerName, env) ==
  IF ~ValidateName(vpnName) THEN Result(fs, NoReport, "invalid vpn name")
  ELSE IF ~ValidateName(peerName) THEN Result(fs, NoReport, "invalid peer name")
  ELSE
    LET peerPath == PeerConfigPath(vpnName, peerName)
        rep2 == addChange(NoReport, "deleted", peerPath)
    IN IF ReadPath(fs, peerPath) = NoFile THEN Result(fs, NoReport, "peer does not exist")
       ELSE Result(RemovePath(fs, peerPath), maybeVPNRestart(env.sys, rep2, vpnName), "")

\* Manager.DeletePeer
DeletePeerOp(fs, vpnName, peerName, env) ==
  IF ~ValidateName(vpnName) THEN Result(fs, NoReport, "invalid vpn name")
  ELSE IF ~ValidateName(peerName) THEN Result(fs, NoReport, "invalid peer name")
  ELSE
    LET peerPath == PeerConfigPath(vpnName, peerName)
        peerContent == ReadPath(fs, peerPath)
        rawAddr == firstSectionValue(peerContent, Interface, <<"A","d","d","r","e","s","s">>)
        rep1 == IF rawAddr = <<>> THEN warnf(NoReport, "peer file missing Interface.Address")
                ELSE NoReport
        peerAddr == normalizeCIDR(rawAddr, PeerMask)
        vpnPath == VPNConfigPath(vpnName)
        vpnContent == ReadPath(fs, vpnPath)
        rm == removePeerBlock(vpnContent, [VPN |-> vpnName, Peer |-> peerName], peerAddr)
        w == IF vpnContent = NoFile
             THEN [fs |-> fs, rep |-> warnf(rep1, "vpn config not found")]
             ELSE IF rm.removed THEN writeFile(fs, rep1, vpnPath, rm.content)
             ELSE [fs |-> fs, rep |-> warnf(rep1, "peer block was not found")]
        fs2 == RemovePath(w.fs, peerPath)
        rep2 == addChange(w.rep, "deleted", peerPath)
    IN IF peerContent = NoFile THEN Result(fs, NoReport, "peer does not exist")
       ELSE Result(fs2, maybeVPNRestart(env.sys, rep2, vpnName), "")

-----------------------------------------------------------------------------
(* The manager driven by sequential calls on an empty base directory       *)

\* the number of calls a run makes
MaxCalls == 6

NameInputs == VPNNames \cup InvalidNames
PeerInputs == PeerNames \cup InvalidNames

NoCall ==
  [op |-> "none", vpn |-> <<>>, peer |-> <<>>, err |-> "", rep |-> NoReport]

NoDraw == [kind |-> "empty", files |-> <<>>, blocks |-> <<>>]

NoRet ==
  [fn |-> "none", vpn |-> <<>>, peer |-> <<>>, probe |-> <<>>, octet |-> 0,
   ok |-> TRUE, n |-> 0, content |-> NoFile, removed |-> FALSE]

Init ==
  /\ wgDir = FALSE
  /\ peersDir = FALSE
  /\ vpnFiles = [v \in VPNNames |-> NoFile]
  /\ peerFiles = [r \in VPNNames \X PeerNames |-> NoFile]
  /\ last = NoCall
  /\ calls = 0
  /\ drawn = NoDraw
  /\ ret = NoRet

Returned(op, vpn, peer, r) ==
  /\ calls < MaxCalls
  /\ ret = NoRet
  /\ calls' = calls + 1
  /\ wgDir' = r.fs.wg
  /\ peersDir' = r.fs.peers
  /\ vpnFiles' = r.fs.vpn
  /\ peerFiles' = r.fs.peer
  /\ last' = [op |-> op, vpn |-> vpn, peer |-> peer, err |-> r.err, rep |-> r.rep]
  /\ UNCHANGED <<drawn, ret>>

AddVPN(name) ==
  \E env \in Envs, key \in PrivateKeys :
       Returned("AddVPN", name, <<>>, AddVPNOp(Disk, name, env, key))

DeleteVPN(name) ==
  \E env \in Envs : Returned("DeleteVPN", name, <<>>, DeleteVPNOp(Disk, name, env))

AddPeer(vpnName, peerName) ==
  \E env \in Envs, key \in PrivateKeys, psk \in PresharedKeys :
       Returned("AddPeer", vpnName, peerName, AddPeerOp(Disk, vpnName, peerName, env, key, psk))

DeletePeer(vpnName, peerName) ==
  \E env \in Envs :
    Returned("DeletePeer", vpnName, peerName, DeletePeerOp(Disk, vpnName, peerName, env))

Next ==
  \/ \E name \in NameInputs : AddVPN(name)
  \/ \E name \in NameInputs : DeleteVPN(name)
  \/ \E v \in NameInputs, p \in PeerInputs : AddPeer(v, p)
  \/ \E v \in NameInputs, p \in PeerInputs : DeletePeer(v, p)

Spec == Init /\ [][Next]_vars

-----------------------------------------------------------------------------
(* The manager and its functions applied once to a drawn base directory:   *)
(* VPN files as the manager renders them, with ports and octets drawn from *)
(* the whole configured range, optionally hand-edited, and peer blocks     *)
(* with or without their ownership tag                                     *)

\* the most [Peer] blocks a drawn VPN file holds
MaxBlocks == 2

PortDraws ==
  {[kind |-> "ok", port |-> p] : p \in {MinPort - 7, MinPort, MinPort + 3, MaxPort}}
  \cup {[kind |-> "missing", port |-> 0], [kind |-> "garbage", port |-> 0]}

AddrDraws ==
  {[kind |-> "ok", octet |-> o] : o \in {1, 2, MaxVPNOctet}}
  \cup {[kind |-> "missing", octet |-> 0], [kind |-> "otherprefix", octet |-> 0],
        [kind |-> "garbage", octet |-> 0]}

AbsentFile ==
  [present |-> FALSE, portKind |-> "missing", port |-> 0, addrKind |-> "missing", octet |-> 0]

FileDraws ==
  {AbsentFile} \cup
  {[present |-> TRUE, portKind |-> p.kind, port |-> p.port, addrKind |-> a.kind, octet |-> a.octet] :
     p \in PortDraws, a \in AddrDraws}

\* the VPN whose file carries the drawn peer blocks, as AddVPN first renders it
BlockVPN == <<"h">>
BlockVPNFile ==
  [present |-> TRUE, portKind |-> "ok", port |-> MinPort, addrKind |-> "ok", octet |-> 1]

BlockDraws ==
  {[tag |-> t, parse |-> TRUE, octet |-> a[1], host |-> a[2]] :
     t \in PeerNames \cup {<<>>}, a \in {<<1, 2>>, <<1, 3>>, <<1, MaxHostOctet>>, <<2, 7>>}}
  \cup {[tag |-> t, parse |-> FALSE, octet |-> 0, host |-> 0] : t \in PeerNames \cup {<<>>}}

BlockLists == UNION {[1..n -> BlockDraws] : n \in 0..MaxBlocks}

DirDraws == {[kind |-> "dir", files |-> f, blocks |-> <<>>] : f \in [VPNNames -> FileDraws]}

TextDraws ==
  {[kind |-> "text",
    files |-> [v \in VPNNames |-> IF v = BlockVPN THEN BlockVPNFile ELSE AbsentFile],
    blocks |-> bs] : bs \in BlockLists}

\* a drawn VPN file: renderVPNConfig's output, the ListenPort and Address lines
\* kept, dropped or overwritten by hand
DrawnVPNFile(name, d) ==
  LET key == CHOOSE k \in PrivateKeys : TRUE
      r == renderVPNConfig(name, InterfaceName(name), key, d.port, d.octet, DetectedInterface)
      portLine == IF d.portKind = "ok" THEN <<r[4]>>
                  ELSE IF d.portKind = "missing" THEN <<>>
                  ELSE <<<<"L","i","s","t","e","n","P","o","r","t"," ","="," ","a","u","t","o">>>>
      addrLine == IF d.addrKind = "ok" THEN <<r[5]>>
                  ELSE IF d.addrKind = "missing" THEN <<>>
                  ELSE IF d.addrKind = "otherprefix" THEN <<<<"A","d","d","r","e","s","s"," ","="," ","1","0",".","8",".","0",".","1","/","2","4">>>>
                  ELSE <<<<"A","d","d","r","e","s","s"," ","="," ","6","9",".","0",".","x",".","1","/","2","4">>>>
  IN IF ~d.present THEN NoFile
     ELSE SubSeq(r, 1, 3) \o portLine \o addrLine \o SubSeq(r, 6, 8)

DrawnAddr(b) ==
  IF b.parse
  THEN SubnetPrefix \o <<".">> \o Itoa(b.octet) \o <<".">> \o Itoa(b.host) \o <<"/">> \o Itoa(PeerMask)
  ELSE <<"1","0",".","8",".","0",".","2","/","3","2">>

\* a drawn [Peer] block: renderServerPeerBlock's output, its tag line dropped
\* when the block is untagged
DrawnBlock(b) ==
  LET psk == CHOOSE k \in PresharedKeys : TRUE
      pub == DerivePublicKey(CHOOSE k \in PrivateKeys : TRUE)
      blk == renderServerPeerBlock(BlockVPN, b.tag, pub, psk, DrawnAddr(b))
  IN IF b.tag = <<>> THEN Tail(blk) ELSE blk

RECURSIVE DrawnText(_, _)
\* the blocks appended one after the other the way AddPeer appends a block
DrawnText(content, blocks) ==
  IF blocks = <<>> THEN content
  ELSE DrawnText(Concat(Concat(TrimRightNewlines(content), << <<>>, <<>>, <<>> >>),
                        DrawnBlock(Head(blocks))),
                 Tail(blocks))

\* the client file AddPeer writes beside a tagged block
DrawnPeerFile(d, vpn, peer) ==
  LET key == CHOOSE k \in PrivateKeys : TRUE
      psk == CHOOSE k \in PresharedKeys : TRUE
      own == {i \in 1..Len(d.blocks) : d.blocks[i].tag = peer}
      b == d.blocks[CHOOSE i \in own : \A k \in own : i <= k]
  IN IF vpn # BlockVPN \/ own = {} THEN NoFile
     ELSE renderClientPeerConfig(vpn, peer, key, DrawnAddr(b), DerivePublicKey(key), psk,
                                 SubnetPrefix \o <<".","1",".","0","/">> \o Itoa(InterfaceMask),
                                 DetectedHost, BlockVPNFile.port)

DrawnInit ==
  /\ drawn \in DirDraws \cup TextDraws
  /\ wgDir = TRUE
  /\ peersDir = TRUE
  /\ vpnFiles = [v \in VPNNames |-> DrawnText(DrawnVPNFile(v, drawn.files[v]),
                                              IF v = BlockVPN THEN drawn.blocks ELSE <<>>)]
  /\ peerFiles = [r \in VPNNames \X PeerNames |-> DrawnPeerFile(drawn, r[1], r[2])]
  /\ last = NoCall
  /\ calls = MaxCalls - 1
  /\ ret = NoRet

\* a direct call is made on the drawn directory itself
Direct(r) ==
  /\ ret = NoRet
  /\ last = NoCall
  /\ ret' = r
  /\ UNCHANGED <<wgDir, peersDir, vpnFiles, peerFiles, last, calls, drawn>>

CallNextAvailablePort ==
  LET r == nextAvailablePort(Disk)
  IN Direct([NoRet EXCEPT !.fn = "nextAvailablePort", !.ok = r.ok, !.n = r.n])

CallNextVPNSubnetOctet ==
  LET r == nextVPNSubnetOctet(Disk)
  IN Direct([NoRet EXCEPT !.fn = "nextVPNSubnetOctet", !.ok = r.ok, !.n = r.n])

CallNextPeerHostOctet(vpn, vpnOctet) ==
  /\ vpnFiles[vpn] # NoFile
  /\ LET r == nextPeerHostOctet(vpnFiles[vpn], vpnOctet)
     IN Direct([NoRet EXCEPT !.fn = "nextPeerHostOctet", !.vpn = vpn, !.octet = vpnOctet,
                             !.ok = r.ok, !.n = r.n])

CallRemovePeerBlock(vpn, peer, probe) ==
  /\ vpnFiles[vpn] # NoFile
  /\ LET r == removePeerBlock(vpnFiles[vpn], [VPN |-> vpn, Peer |-> peer], probe)
     IN Direct([NoRet EXCEPT !.fn = "removePeerBlock", !.vpn = vpn, !.peer = peer,
                             !.probe = probe, !.content = r.content, !.removed = r.removed])

\* the probe addresses handed to removePeerBlock
Probes == {<<"6","9",".","0",".","1",".","2","/","3","2">>, <<"6","9",".","0",".","1",".","3","/","3","2">>, <<"6","9",".","0",".","1",".","9","/","3","2">>}

NextDrawn ==
  \/ Next
  \/ CallNextAvailablePort
  \/ CallNextVPNSubnetOctet
  \/ \E v \in VPNNames, o \in {1, 2} : CallNextPeerHostOctet(v, o)
  \/ \E v \in VPNNames, p \in PeerNames, probe \in Probes : CallRemovePeerBlock(v, p, probe)

SpecDrawn == DrawnInit /\ [][NextDrawn]_vars

-----------------------------------------------------------------------------
(* The same sequential calls with a log: ret keeps, for the last two calls, *)
(* the call, its error and the disk it started from                        *)

\* the number of calls a logged run makes
MaxLoggedCalls == 4

NoLog == [fn |-> "log", log |-> <<>>]

LoggedInit ==
  /\ wgDir = FALSE
  /\ peersDir = FALSE
  /\ vpnFiles = [v \in VPNNames |-> NoFile]
  /\ peerFiles = [r \in VPNNames \X PeerNames |-> NoFile]
  /\ last = NoCall
  /\ calls = 0
  /\ drawn = NoDraw
  /\ ret = NoLog

\* the last entry of the log and the one before it
LastTwo(log) == IF Len(log) > 2 THEN SubSeq(log, Len(log) - 1, Len(log)) ELSE log

Logged(op, vpn, peer, env, r) ==
  /\ calls < MaxLoggedCalls
  /\ ret.fn = "log"
  /\ calls' = calls + 1
  /\ wgDir' = r.fs.wg
  /\ peersDir' = r.fs.peers
  /\ vpnFiles' = r.fs.vpn
  /\ peerFiles' = r.fs.peer
  /\ last' = [op |-> op, vpn |-> vpn, peer |-> peer, err |-> r.err, rep |-> r.rep]
  /\ ret' = [ret EXCEPT !.log = LastTwo(Append(@, [op |-> op, vpn |-> vpn, peer |-> peer,
                                                    err |-> r.err, before |-> Disk]))]
  /\ UNCHANGED drawn

LoggedAddVPN(name) ==
  \E env \in Envs, key \in PrivateKeys :
       Logged("AddVPN", name, <<>>, env, AddVPNOp(Disk, name, env, key))

LoggedDeleteVPN(name) ==
  \E env \in Envs : Logged("DeleteVPN", name, <<>>, env, DeleteVPNOp(Disk, name, env))

LoggedAddPeer(vpnName, peerName) ==
  \E env \in Envs, key \in PrivateKeys, psk \in PresharedKeys :
       Logged("AddPeer", vpnName, peerName, env, AddPeerOp(Disk, vpnName, peerName, env, key, psk))

LoggedDeletePeer(vpnName, peerName) ==
  \E env \in Envs :
    Logged("DeletePeer", vpnName, peerName, env, DeletePeerOp(Disk, vpnName, peerName, env))

NextLogged ==
  \/ \E name \in NameInputs : LoggedAddVPN(name)
  \/ \E name \in NameInputs : LoggedDeleteVPN(name)
  \/ \E v \in NameInputs, p \in PeerInputs : LoggedAddPeer(v, p)
  \/ \E v \in NameInputs, p \in PeerInputs : LoggedDeletePeer(v, p)

SpecLogged == LoggedInit /\ [][NextLogged]_vars

-----------------------------------------------------------------------------
(* writeFile and ensureDir called in sequence with one Report, on a base    *)
(* directory drawn with or without its directories and files               *)

\* the number of writeFile and ensureDir calls a run makes
MaxWrites == 2

\* byte contents handed to writeFile: "", "x\n", "y\n"
WriteData == {EmptyContent, <<<<"x">>, <<>>>>, <<<<"y">>, <<>>>>}

\* the paths written: a VPN config file and a client peer file
WritePaths == {VPNConfigPath(<<"h">>), PeerConfigPath(<<"h">>, <<"a">>)}

\* the directory a path lies in
ParentDir(path) == IF path.kind = "vpnconf" THEN WireGuardDir ELSE PeersDir

DirExists(fs, dir) == IF dir = WireGuardDir THEN fs.wg ELSE fs.peers

NoWrite ==
  [fn |-> "files", path |-> PeersDir, data |-> NoFile, rep |-> NoReport,
   before |-> EmptyDisk, repBefore |-> NoReport, prevFn |-> "files",
   prevPath |-> PeersDir, prevData |-> NoFile, firstRep |-> NoReport,
   firstBefore |-> EmptyDisk]

FilesInit ==
  /\ wgDir \in BOOLEAN
  /\ peersDir \in IF wgDir THEN BOOLEAN ELSE {FALSE}
  /\ vpnFiles \in [VPNNames -> WriteData \cup {NoFile}]
  /\ peerFiles \in [VPNNames \X PeerNames -> WriteData \cup {NoFile}]
  /\ \A v \in VPNNames : vpnFiles[v] # NoFile => (wgDir /\ VPNConfigPath(v) \in WritePaths)
  /\ \A r \in VPNNames \X PeerNames :
       peerFiles[r] # NoFile => (peersDir /\ PeerConfigPath(r[1], r[2]) \in WritePaths)
  /\ last = NoCall
  /\ calls = 0
  /\ drawn = [kind |-> "files", files |-> <<>>, blocks |-> <<>>]
  /\ ret = NoWrite

\* a call of fn on path (with data) that left the disk and the Report as in r
Wrote(fn, path, data, r) ==
  /\ calls < MaxWrites
  /\ ret.fn \in {"files", "writeFile", "ensureDir"}
  /\ calls' = calls + 1
  /\ wgDir' = r.fs.wg
  /\ peersDir' = r.fs.peers
  /\ vpnFiles' = r.fs.vpn
  /\ peerFiles' = r.fs.peer
  /\ ret' = [fn |-> fn, path |-> path, data |-> data, rep |-> r.rep,
             before |-> Disk, repBefore |-> ret.rep, prevFn |-> ret.fn,
             prevPath |-> ret.path, prevData |-> ret.data, firstRep |-> ret.repBefore,
             firstBefore |-> ret.before]
  /\ UNCHANGED <<last, drawn>>

CallWriteFile(path, data) == Wrote("writeFile", path, data, writeFile(Disk, ret.rep, path, data))

CallEnsureDir(dir) == Wrote("ensureDir", dir, NoFile, ensureDir(Disk, ret.rep, dir))

NextFiles ==
  \/ \E path \in WritePaths, data \in WriteData : CallWriteFile(path, data)
  \/ \E dir \in {WireGuardDir, PeersDir} : CallEnsureDir(dir)

SpecFiles == FilesInit /\ [][NextFiles]_vars

-----------------------------------------------------------------------------
(* ValidateName, ParsePeerRef and the manager called once with a drawn      *)
(* string, on an empty base directory or on one holding a VPN and a peer   *)

\* the longest string drawn
MaxNameLen == 3

\* characters of a drawn string: lowercase letters, a digit, an uppercase
\* letter and the ':' of a peer reference
GoodChars == {"a", "h", "0"}
BadChars == {"B", ":"}

StringDraws == UNION {[1..n -> GoodChars \cup BadChars] : n \in 0..MaxNameLen}

AllWorks == CHOOSE e \in Envs : e.keysOK /\ e.ifaceOK /\ e.hostOK /\ e.sys.root

NoNameCall ==
  [fn |-> "names", s |-> <<>>, ok |-> FALSE, VPN |-> <<>>, Peer |-> <<>>,
   ref |-> [VPN |-> <<>>, Peer |-> <<>>]]

NamesInit ==
  /\ drawn \in {[kind |-> "names", s |-> s] : s \in StringDraws}
  /\ wgDir = FALSE
  /\ peersDir = FALSE
  /\ vpnFiles = [v \in VPNNames |-> NoFile]
  /\ peerFiles = [r \in VPNNames \X PeerNames |-> NoFile]
  /\ last = NoCall
  /\ calls = 0
  /\ ret = NoNameCall

\* before the call with the drawn string, AddVPN("h") and then AddPeer("h", "a")
\* may have filled the base directory
SetUp(r) ==
  /\ ret = NoNameCall
  /\ last = NoCall
  /\ r.err = ""
  /\ wgDir' = r.fs.wg
  /\ peersDir' = r.fs.peers
  /\ vpnFiles' = r.fs.vpn
  /\ peerFiles' = r.fs.peer
  /\ UNCHANGED <<last, calls, drawn, ret>>

\* a direct call on the drawn string
NameCall(r) ==
  /\ ret = NoNameCall
  /\ last = NoCall
  /\ ret' = r
  /\ UNCHANGED <<wgDir, peersDir, vpnFiles, peerFiles, last, calls, drawn>>

CallValidateName ==
  NameCall([NoNameCall EXCEPT !.fn = "ValidateName", !.s = drawn.s, !.ok = ValidateName(drawn.s)])

CallParsePeerRef ==
  LET r == ParsePeerRef(drawn.s)
  IN NameCall([NoNameCall EXCEPT !.fn = "ParsePeerRef", !.s = drawn.s, !.ok = r.ok,
                                 !.VPN = r.VPN, !.Peer = r.Peer])

\* PeerRef{vpn, peer}.String() parsed again, for the valid names that the
\* drawn string splits into
CallStringThenParse(i) ==
  LET ref == [VPN |-> SubSeq(drawn.s, 1, i), Peer |-> SubSeq(drawn.s, i + 1, Len(drawn.s))]
      r == ParsePeerRef(PeerRefString(ref))
  IN /\ ValidateName(ref.VPN)
     /\ ValidateName(ref.Peer)
     /\ NameCall([NoNameCall EXCEPT !.fn = "PeerRef.String", !.s = PeerRefString(ref),
                                    !.ok = r.ok, !.VPN = r.VPN, !.Peer = r.Peer, !.ref = ref])

\* a manager call with the drawn string as a name; the disk holds the files
\* of the names in VPNNames and PeerNames only, so a valid drawn name is one
\* of those
NamedCall(op, vpn, peer, r) ==
  /\ ret = NoNameCall
  /\ last = NoCall
  /\ calls' = calls + 1
  /\ wgDir' = r.fs.wg
  /\ peersDir' = r.fs.peers
  /\ vpnFiles' = r.fs.vpn
  /\ peerFiles' = r.fs.peer
  /\ last' = [op |-> op, vpn |-> vpn, peer |-> peer, err |-> r.err, rep |-> r.rep,
              before |-> Disk]
  /\ UNCHANGED <<drawn, ret>>

AsVPNName(s) == IF ValidateName(s) THEN s \in VPNNames ELSE TRUE
AsPeerName(s) == IF ValidateName(s) THEN s \in PeerNames ELSE TRUE

\* AddVPN with the drawn string, or AddVPN("h") in preparation
NamedAddVPN(name, preparing) ==
  /\ AsVPNName(name)
  /\ \E key \in PrivateKeys :
       \E r \in {AddVPNOp(Disk, name, AllWorks, key)} :
         IF preparing THEN SetUp(r) ELSE NamedCall("AddVPN", name, <<>>, r)

NamedDeleteVPN ==
  /\ AsVPNName(drawn.s)
  /\ \E r \in {DeleteVPNOp(Disk, drawn.s, AllWorks)} : NamedCall("DeleteVPN", drawn.s, <<>>, r)

\* AddPeer with the drawn string as the VPN name beside a valid peer name or
\* as the peer name beside a valid VPN name, or AddPeer("h", "a") in preparation
NamedAddPeer(vpn, peer, preparing) ==
  /\ preparing \/ drawn.s \in {vpn, peer}
  /\ AsVPNName(vpn) /\ AsPeerName(peer)
  /\ \E key \in PrivateKeys, psk \in PresharedKeys :
       \E r \in {AddPeerOp(Disk, vpn, peer, AllWorks, key, psk)} :
         IF preparing THEN SetUp(r) ELSE NamedCall("AddPeer", vpn, peer, r)

NamedDeletePeer(vpn, peer) ==
  /\ drawn.s \in {vpn, peer}
  /\ AsVPNName(vpn) /\ AsPeerName(peer)
  /\ \E r \in {DeletePeerOp(Disk, vpn, peer, AllWorks)} : NamedCall("DeletePeer", vpn, peer, r)

NextNames ==
  \/ CallValidateName
  \/ CallParsePeerRef
  \/ \E i \in 1..(Len(drawn.s) - 1) : CallStringThenParse(i)
  \/ \E preparing \in BOOLEAN : NamedAddVPN(IF preparing THEN <<"h">> ELSE drawn.s, preparing)
  \/ NamedDeleteVPN
  \/ \E v \in {<<"h">>, drawn.s}, p \in {<<"a">>, drawn.s}, preparing \in BOOLEAN :
       /\ preparing => (v = <<"h">> /\ p = <<"a">>)
       /\ NamedAddPeer(v, p, preparing)
  \/ \E v \in {<<"h">>, drawn.s}, p \in {<<"a">>, drawn.s} : NamedDeletePeer(v, p)

SpecNames == NamesInit /\ [][NextNames]_vars

-----------------------------------------------------------------------------
(* removePeerBlock applied once, the way DeletePeer calls it, to a VPN file *)
(* that ends in no, one or two newlines: a file the manager wrote, or one   *)
(* edited by hand                                                           *)

TextBlockDraws ==
  {[tag |-> t, parse |-> TRUE, octet |-> a[1], host |-> a[2]] :
     t \in PeerNames \cup {<<>>}, a \in {<<1, 2>>, <<1, 3>>}}

TextBlockLists == UNION {[1..n -> TextBlockDraws] : n \in 0..MaxBlocks}

Endings == {"none", "one", "two"}

\* the text with its trailing newlines replaced by the drawn ending
WithEnding(text, ending) ==
  LET body == TrimRightNewlines(text)
  IN IF ending = "none" THEN body
     ELSE IF ending = "one" THEN Concat(body, Newline)
     ELSE Concat(body, Concat(Newline, Newline))

EndingDraws ==
  {[kind |-> "ending", blank |-> FALSE, blocks |-> bs, ending |-> e] :
     bs \in TextBlockLists, e \in Endings}
  \cup {[kind |-> "ending", blank |-> TRUE, blocks |-> <<>>, ending |-> e] : e \in Endings}

DrawnEndingText(d) ==
  WithEnding(IF d.blank THEN EmptyContent
             ELSE DrawnText(DrawnVPNFile(BlockVPN, BlockVPNFile), d.blocks),
             d.ending)

\* the peer addresses DeletePeer reads from a client file, before normalizeCIDR
RawProbes == {<<"6","9",".","0",".","1",".","2">>, <<"6","9",".","0",".","1",".","2","/","3","2">>, <<"6","9",".","0",".","1",".","3">>, <<"6","9",".","0",".","1",".","9","/","3","2">>, <<>>}

RefPeers == PeerNames \cup {<<"c">>}

NoTextRet ==
  [fn |-> "none", peer |-> <<>>, raw |-> <<>>, probe |-> <<>>,
   content |-> NoFile, removed |-> FALSE]

TextInit ==
  /\ drawn \in EndingDraws
  /\ wgDir = TRUE
  /\ peersDir = TRUE
  /\ vpnFiles = [v \in VPNNames |-> IF v = BlockVPN THEN DrawnEndingText(drawn) ELSE NoFile]
  /\ peerFiles = [r \in VPNNames \X PeerNames |-> NoFile]
  /\ last = NoCall
  /\ calls = 0
  /\ ret = NoTextRet

\* DeletePeer's two steps on the VPN file: normalizeCIDR, then removePeerBlock
CallRemovePeerBlockRaw(peer, raw) ==
  /\ ret = NoTextRet
  /\ \E probe \in {normalizeCIDR(raw, PeerMask)} :
       \E r \in {removePeerBlock(vpnFiles[BlockVPN], [VPN |-> BlockVPN, Peer |-> peer], probe)} :
         ret' = [fn |-> "removePeerBlock", peer |-> peer, raw |-> raw, probe |-> probe,
                 content |-> r.content, removed |-> r.removed]
  /\ UNCHANGED <<wgDir, peersDir, vpnFiles, peerFiles, last, calls, drawn>>

NextText ==
  \E peer \in RefPeers, raw \in RawProbes : CallRemovePeerBlockRaw(peer, raw)

SpecText == TextInit /\ [][NextText]_vars

-----------------------------------------------------------------------------
(* Two invocations of the manager at once on one base directory: AddVPN    *)
(* and AddPeer advance one file-system access at a time, each keeping what *)
(* it read in its own variables until it writes                            *)

\* the number of invocations started in one run
MaxRaceCalls == 3

Procs == {1, 2}

NoProc ==
  [pc |-> "idle", op |-> "none", vpn |-> <<>>, peer |-> <<>>, err |-> "", rep |-> NoReport,
   port |-> 0, octet |-> 0, content |-> NoFile, updated |-> NoFile, client |-> NoFile,
   sawPort |-> 0, sawOctet |-> 0, saw |-> 0, wroteNo |-> 0]

\* writes counts the VPN config files written so far
NoRace == [fn |-> "race", procs |-> [p \in Procs |-> NoProc], writes |-> 0]

RaceInit ==
  /\ wgDir = FALSE
  /\ peersDir = FALSE
  /\ vpnFiles = [v \in VPNNames |-> NoFile]
  /\ peerFiles = [r \in VPNNames \X PeerNames |-> NoFile]
  /\ last = NoCall
  /\ calls = 0
  /\ drawn = NoDraw
  /\ ret = NoRace

\* one access of invocation p: the disk and p's variables after it
Stepped(p, fs, proc, wrote) ==
  /\ wgDir' = fs.wg
  /\ peersDir' = fs.peers
  /\ vpnFiles' = fs.vpn
  /\ peerFiles' = fs.peer
  /\ ret' = [ret EXCEPT !.procs[p] = proc, !.writes = IF wrote THEN @ + 1 ELSE @]
  /\ UNCHANGED <<last, drawn>>

Returns(proc, rep, err) == [proc EXCEPT !.pc = "done", !.rep = rep, !.err = err]

CanStart(p) ==
  /\ ret.fn = "race"
  /\ ret.procs[p].pc \in {"idle", "done"}
  /\ calls < MaxRaceCalls

\* AddVPN up to os.Stat(confPath)
RaceStartAddVPN(p, name) ==
  /\ CanStart(p)
  /\ calls' = calls + 1
  /\ LET d1 == ensureDir(Disk, NoReport, WireGuardDir)
         d2 == ensureDir(d1.fs, d1.rep, PeersDir)
         proc == [NoProc EXCEPT !.op = "AddVPN", !.vpn = name, !.rep = d2.rep]
     IN IF ReadPath(d2.fs, VPNConfigPath(name)) # NoFile
        THEN Stepped(p, d2.fs, Returns(proc, d2.rep, "vpn already exists"), FALSE)
        ELSE Stepped(p, d2.fs, [proc EXCEPT !.pc = "checked"], FALSE)

\* AddVPN: nextAvailablePort
RaceScanPort(p) ==
  /\ ret.fn = "race"
  /\ ret.procs[p].pc = "checked"
  /\ UNCHANGED calls
  /\ \E r \in {nextAvailablePort(Disk)} :
       LET proc == ret.procs[p]
       IN IF ~r.ok THEN Stepped(p, Disk, Returns(proc, proc.rep, "no available port"), FALSE)
          ELSE Stepped(p, Disk, [proc EXCEPT !.pc = "portScanned", !.port = r.n,
                                             !.sawPort = ret.writes], FALSE)

\* AddVPN: nextVPNSubnetOctet, then the interface and the key
RaceScanOctet(p) ==
  /\ ret.fn = "race"
  /\ ret.procs[p].pc = "portScanned"
  /\ UNCHANGED calls
  /\ \E r \in {nextVPNSubnetOctet(Disk)} :
       LET proc == ret.procs[p]
       IN IF ~r.ok
          THEN Stepped(p, Disk, Returns(proc, proc.rep, "no available vpn subnet octet"), FALSE)
          ELSE Stepped(p, Disk, [proc EXCEPT !.pc = "scanned", !.octet = r.n,
                                             !.sawOctet = ret.writes], FALSE)

\* AddVPN: renderVPNConfig, writeFile(confPath), maybeVPNEnable
RaceWriteVPN(p) ==
  /\ ret.fn = "race"
  /\ ret.procs[p].pc = "scanned"
  /\ UNCHANGED calls
  /\ LET proc == ret.procs[p]
         iface == IF PublicInterface # <<>> THEN PublicInterface ELSE DetectedInterface
         key == CHOOSE k \in PrivateKeys : TRUE
         conf == renderVPNConfig(proc.vpn, InterfaceName(proc.vpn), key, proc.port, proc.octet, iface)
         w == writeFile(Disk, proc.rep, VPNConfigPath(proc.vpn), conf)
     IN Stepped(p, w.fs,
                [Returns(proc, maybeVPNEnable(AllWorks.sys, w.rep, proc.vpn), "")
                   EXCEPT !.wroteNo = ret.writes + 1],
                TRUE)

\* AddPeer up to os.ReadFile(vpnPath)
RaceStartAddPeer(p, vpnName, peerName) ==
  /\ CanStart(p)
  /\ calls' = calls + 1
  /\ LET d == ensureDir(Disk, NoReport, PeersDir)
         vpnContent == ReadPath(d.fs, VPNConfigPath(vpnName))
         proc == [NoProc EXCEPT !.op = "AddPeer", !.vpn = vpnName, !.peer = peerName,
                                !.rep = d.rep, !.content = vpnContent, !.saw = ret.writes]
     IN IF vpnContent = NoFile
        THEN Stepped(p, d.fs, Returns(proc, d.rep, "vpn does not exist"), FALSE)
        ELSE Stepped(p, d.fs, [proc EXCEPT !.pc = "read"], FALSE)

\* AddPeer from os.Stat(peerPath) to the two rendered texts, all of it computed
\* from the content read at the start
RacePrepare(p) ==
  /\ ret.fn = "race"
  /\ ret.procs[p].pc = "read"
  /\ UNCHANGED calls
  /\ LET proc == ret.procs[p] IN
     \E key \in {CHOOSE k \in PrivateKeys : TRUE}, psk \in {CHOOSE k \in PresharedKeys : TRUE} :
       \E r \in {AddPeerOp([Disk EXCEPT !.vpn[proc.vpn] = proc.content],
                           proc.vpn, proc.peer, AllWorks, key, psk)} :
         IF r.err # "" THEN Stepped(p, Disk, Returns(proc, proc.rep, r.err), FALSE)
         ELSE Stepped(p, Disk,
                      [proc EXCEPT !.pc = "prepared", !.updated = r.fs.vpn[proc.vpn],
                                   !.client = r.fs.peer[<<proc.vpn, proc.peer>>]],
                      FALSE)

RaceWriteBlock_Rereads(p) ==
  /\ ret.fn = "race"
  /\ ret.procs[p].pc = "prepared"
  /\ UNCHANGED calls
  /\ LET proc == ret.procs[p]
         block == SubSeq(proc.updated, Len(proc.content) + 2, Len(proc.updated))
         now == Concat(Concat(TrimRightNewlines(vpnFiles[proc.vpn]), << <<>>, <<>>, <<>> >>), block)
         w == writeFile(Disk, proc.rep, VPNConfigPath(proc.vpn), now)
     IN Stepped(p, w.fs, [proc EXCEPT !.pc = "blockWritten", !.rep = w.rep,
                                      !.wroteNo = ret.writes + 1], TRUE)

\* AddPeer: writeFile(vpnPath, updatedVPN)
RaceWriteBlock(p) ==
  /\ ret.fn = "race"
  /\ ret.procs[p].pc = "prepared"
  /\ UNCHANGED calls
  /\ LET proc == ret.procs[p]
         w == writeFile(Disk, proc.rep, VPNConfigPath(proc.vpn), proc.updated)
     IN Stepped(p, w.fs, [proc EXCEPT !.pc = "blockWritten", !.rep = w.rep,
                                      !.wroteNo = ret.writes + 1], TRUE)

\* AddPeer: writeFile(peerPath, clientConf), maybeVPNRestart
RaceWriteClient(p) ==
  /\ ret.fn = "race"
  /\ ret.procs[p].pc = "blockWritten"
  /\ UNCHANGED calls
  /\ LET proc == ret.procs[p]
         w == writeFile(Disk, proc.rep, PeerConfigPath(proc.vpn, proc.peer), proc.client)
     IN Stepped(p, w.fs, Returns(proc, maybeVPNRestart(AllWorks.sys, w.rep, proc.vpn), ""), FALSE)

NextRace ==
  \E p \in Procs :
    \/ \E name \in VPNNames : RaceStartAddVPN(p, name)
    \/ RaceScanPort(p)
    \/ RaceScanOctet(p)
    \/ RaceWriteVPN(p)
    \/ \E v \in VPNNames, peer \in PeerNames : RaceStartAddPeer(p, v, peer)
    \/ RacePrepare(p)
    \/ RaceWriteBlock(p)
    \/ RaceWriteClient(p)

SpecRace == RaceInit /\ [][NextRace]_vars

-----------------------------------------------------------------------------
(* The three renderers applied to drawn fields, and the parsers applied to *)
(* what they rendered                                                      *)

RenderDraws ==
  {[kind |-> "render", vpn |-> v, peer |-> p, port |-> port, octet |-> o, host |-> h] :
     v \in VPNNames, p \in PeerNames,
     port \in {MinPort, MinPort + 1, MinPort + 93, MaxPort},
     o \in {1, 9, 10, 100, MaxVPNOctet},
     h \in {2, 10, MaxHostOctet}}

NoRender ==
  [fn |-> "none", text |-> NoFile, portText |-> <<>>, addr |-> <<>>, peerAddr |-> <<>>,
   ips |-> <<>>]

RenderInit ==
  /\ drawn \in RenderDraws
  /\ wgDir = FALSE
  /\ peersDir = FALSE
  /\ vpnFiles = [v \in VPNNames |-> NoFile]
  /\ peerFiles = [r \in VPNNames \X PeerNames |-> NoFile]
  /\ last = NoCall
  /\ calls = 0
  /\ ret = NoRender

Rendered(r) ==
  /\ ret = NoRender
  /\ ret' = r
  /\ UNCHANGED <<wgDir, peersDir, vpnFiles, peerFiles, last, calls, drawn>>

\* the peer address AddPeer formats from the vpn octet and the host octet
DrawnPeerAddr ==
  SubnetPrefix \o <<".">> \o Itoa(drawn.octet) \o <<".">> \o Itoa(drawn.host) \o <<"/">> \o Itoa(PeerMask)

CallRenderVPNConfig ==
  \E key \in PrivateKeys :
    \E text \in {renderVPNConfig(drawn.vpn, InterfaceName(drawn.vpn), key, drawn.port,
                                 drawn.octet, DetectedInterface)} :
      Rendered([NoRender EXCEPT !.fn = "renderVPNConfig", !.text = text,
                  !.portText = firstSectionValue(text, Interface, <<"L","i","s","t","e","n","P","o","r","t">>),
                  !.addr = firstSectionValue(text, Interface, <<"A","d","d","r","e","s","s">>)])

CallRenderServerPeerBlock ==
  \E key \in PrivateKeys, psk \in PresharedKeys :
    \E text \in {renderServerPeerBlock(drawn.vpn, drawn.peer, DerivePublicKey(key), psk,
                                       DrawnPeerAddr)} :
      Rendered([NoRender EXCEPT !.fn = "renderServerPeerBlock", !.text = text,
                  !.peerAddr = DrawnPeerAddr,
                  !.ips = allSectionValues(text, Peer, <<"A","l","l","o","w","e","d","I","P","s">>)])

CallRenderClientPeerConfig ==
  \E key \in PrivateKeys, psk \in PresharedKeys :
    \E text \in {renderClientPeerConfig(drawn.vpn, drawn.peer, key, DrawnPeerAddr,
                   DerivePublicKey(key), psk,
                   SubnetPrefix \o <<".">> \o Itoa(drawn.octet) \o <<".","0","/">> \o Itoa(InterfaceMask),
                   DetectedHost, drawn.port)} :
      Rendered([NoRender EXCEPT !.fn = "renderClientPeerConfig", !.text = text,
                  !.peerAddr = DrawnPeerAddr,
                  !.addr = firstSectionValue(text, Interface, <<"A","d","d","r","e","s","s">>)])

NextRender ==
  \/ CallRenderVPNConfig
  \/ CallRenderServerPeerBlock
  \/ CallRenderClientPeerConfig

SpecRender == RenderInit /\ [][NextRender]_vars

-----------------------------------------------------------------------------
(* Setup and the four operations under a drawn System: any set of the      *)
(* commands installed, root or not, runs that fail, and the sysctl file    *)
(* configured or not                                                       *)

\* the number of calls made under one drawn System
MaxSetupCalls == 3

Commands == {"sysctl", "systemctl", "wg-quick"}

SystemDraws ==
  {[kind |-> "system", sysctlFile |-> f,
    sys |-> [has |-> h, root |-> r, failing |-> x]] :
     f \in {SysctlFile, <<>>}, h \in SUBSET Commands, r \in BOOLEAN,
     x \in {{}, {"sysctl"}, {"systemctl"}, {"wg-quick up"}}}

\* ret keeps the sysctl file, the call before the last and the disk the last
\* call started from
NoSetup == [fn |-> "setup", sysctl |-> NoFile, prevOp |-> "none", before |-> EmptyDisk]

SetupInit ==
  /\ drawn \in SystemDraws
  /\ wgDir = FALSE
  /\ peersDir = FALSE
  /\ vpnFiles = [v \in VPNNames |-> NoFile]
  /\ peerFiles = [r \in VPNNames \X PeerNames |-> NoFile]
  /\ last = NoCall
  /\ calls = 0
  /\ ret = NoSetup

\* the base directory together with the sysctl file
SetupDisk == [sysctl |-> ret.sysctl] @@ Disk

DrawnEnv == [keysOK |-> TRUE, ifaceOK |-> TRUE, hostOK |-> TRUE, sys |-> drawn.sys]

SetupReturned(op, vpn, peer, r) ==
  /\ calls < MaxSetupCalls
  /\ ret.fn = "setup"
  /\ calls' = calls + 1
  /\ wgDir' = r.fs.wg
  /\ peersDir' = r.fs.peers
  /\ vpnFiles' = r.fs.vpn
  /\ peerFiles' = r.fs.peer
  /\ last' = [op |-> op, vpn |-> vpn, peer |-> peer, err |-> r.err, rep |-> r.rep]
  /\ ret' = [ret EXCEPT !.sysctl = r.fs.sysctl, !.prevOp = last.op, !.before = SetupDisk]
  /\ UNCHANGED drawn

SetupServer ==
  \E r \in {SetupServerOp(SetupDisk, DrawnEnv, drawn.sysctlFile)} :
    SetupReturned("SetupServer", <<>>, <<>>, r)

SetupAddVPN(name) ==
  \E key \in PrivateKeys :
    \E r \in {AddVPNOp(SetupDisk, name, DrawnEnv, key)} : SetupReturned("AddVPN", name, <<>>, r)

SetupDeleteVPN(name) ==
  \E r \in {DeleteVPNOp(SetupDisk, name, DrawnEnv)} : SetupReturned("DeleteVPN", name, <<>>, r)

SetupAddPeer(vpnName, peerName) ==
  \E key \in PrivateKeys, psk \in PresharedKeys :
    \E r \in {AddPeerOp(SetupDisk, vpnName, peerName, DrawnEnv, key, psk)} :
      SetupReturned("AddPeer", vpnName, peerName, r)

SetupDeletePeer(vpnName, peerName) ==
  \E r \in {DeletePeerOp(SetupDisk, vpnName, peerName, DrawnEnv)} :
    SetupReturned("DeletePeer", vpnName, peerName, r)

NextSetup ==
  \/ SetupServer
  \/ SetupAddVPN(<<"h">>)
  \/ SetupDeleteVPN(<<"h">>)
  \/ SetupAddPeer(<<"h">>, <<"a">>)
  \/ SetupDeletePeer(<<"h">>, <<"a">>)

SpecSetup == SetupInit /\ [][NextSetup]_vars

-----------------------------------------------------------------------------
(* AddPeer on a VPN file edited by hand: each of the PrivateKey,           *)
(* ListenPort and Address lines kept, dropped, left without a value or     *)
(* overwritten with text AddPeer cannot use                                *)

LineKinds == {"ok", "missing", "empty"}

EditDraws ==
  {[kind |-> "edited", keyKind |-> k, portKind |-> p, addrKind |-> a, blocks |-> n] :
     k \in LineKinds, p \in LineKinds \cup {"garbage"},
     a \in LineKinds \cup {"garbage", "otherprefix"}, n \in 0..1}

\* one line of the rendered file after the edit
EditedLine(line, kind, garbage) ==
  IF kind = "ok" THEN <<line>>
  ELSE IF kind = "missing" THEN <<>>
  ELSE IF kind = "empty" THEN <<SubSeq(line, 1, Index(line, "="))>>
  ELSE <<SubSeq(line, 1, Index(line, "=")) \o <<" ">> \o garbage>>

\* the file AddVPN renders for the VPN, edited as drawn, followed by the
\* block of another peer when one is drawn
EditedVPNFile(name, d) ==
  LET key == CHOOSE k \in PrivateKeys : TRUE
      psk == CHOOSE k \in PresharedKeys : TRUE
      r == renderVPNConfig(name, InterfaceName(name), key, MinPort, 1, DetectedInterface)
      addrGarbage == IF d.addrKind = "otherprefix" THEN <<"1","0",".","8",".","0",".","1","/","2","4">> ELSE <<"6","9",".","0",".","x",".","1","/","2","4">>
      body == SubSeq(r, 1, 2) \o EditedLine(r[3], d.keyKind, <<>>)
              \o EditedLine(r[4], d.portKind, <<"a","u","t","o">>)
              \o EditedLine(r[5], d.addrKind, addrGarbage) \o SubSeq(r, 6, Len(r))
      blk == renderServerPeerBlock(name, <<"a","b">>, DerivePublicKey(key), psk,
                                   SubnetPrefix \o <<".","1",".","2","/">> \o Itoa(PeerMask))
  IN IF d.blocks = 0 THEN body
     ELSE Concat(Concat(TrimRightNewlines(body), << <<>>, <<>>, <<>> >>), blk)

EditedInit ==
  /\ drawn \in EditDraws
  /\ wgDir = TRUE
  /\ peersDir \in BOOLEAN
  /\ vpnFiles = [v \in VPNNames |-> IF v = <<"h">> THEN EditedVPNFile(v, drawn) ELSE NoFile]
  /\ peerFiles = [r \in VPNNames \X PeerNames |-> NoFile]
  /\ last = NoCall
  /\ calls = 0
  /\ ret = [NoRet EXCEPT !.fn = "edited"]

\* one AddPeer call on the edited file
EditedAddPeer(vpnName, peerName) ==
  /\ calls = 0
  /\ ret.fn = "edited"
  /\ \E env \in Envs, key \in PrivateKeys, psk \in PresharedKeys :
       \E r \in {AddPeerOp(Disk, vpnName, peerName, env, key, psk)} :
         /\ wgDir' = r.fs.wg
         /\ peersDir' = r.fs.peers
         /\ vpnFiles' = r.fs.vpn
         /\ peerFiles' = r.fs.peer
         /\ last' = [op |-> "AddPeer", vpn |-> vpnName, peer |-> peerName, err |-> r.err, rep |-> r.rep]
         /\ calls' = 1
         /\ ret' = [ret EXCEPT !.ok = env.keysOK]
         /\ UNCHANGED drawn

NextEdited == \E p \in {<<"a">>, <<"a","b">>} : EditedAddPeer(<<"h">>, p)

SpecEdited == EditedInit /\ [][NextEdited]_vars

-----------------------------------------------------------------------------
(* A peer added to a drawn VPN file and deleted again, other peers         *)
(* possibly added in between                                               *)

\* the calls made on one drawn file
MaxRoundCalls == 3

RoundDraws ==
  {[kind |-> "round", blocks |-> bs, ending |-> e] : bs \in TextBlockLists, e \in Endings}

\* ret keeps the peer under test and the VPN file before it was added, after
\* it was added and just before it was deleted
NoRound ==
  [fn |-> "round", stage |-> "start", peer |-> <<>>, others |-> {},
   before |-> NoFile, added |-> NoFile, later |-> NoFile]

RoundInit ==
  /\ drawn \in RoundDraws
  /\ wgDir = TRUE
  /\ peersDir = TRUE
  /\ vpnFiles = [v \in VPNNames |->
                   IF v = BlockVPN THEN WithEnding(DrawnText(DrawnVPNFile(BlockVPN, BlockVPNFile), drawn.blocks),
                                   drawn.ending)
                   ELSE NoFile]
  /\ peerFiles = [r \in VPNNames \X PeerNames |-> DrawnPeerFile(drawn, r[1], r[2])]
  /\ last = NoCall
  /\ calls = 0
  /\ ret = NoRound

RoundReturned(op, peer, r, next) ==
  /\ calls < MaxRoundCalls
  /\ calls' = calls + 1
  /\ wgDir' = r.fs.wg
  /\ peersDir' = r.fs.peers
  /\ vpnFiles' = r.fs.vpn
  /\ peerFiles' = r.fs.peer
  /\ last' = [op |-> op, vpn |-> BlockVPN, peer |-> peer, err |-> r.err, rep |-> r.rep]
  /\ ret' = next
  /\ UNCHANGED drawn

\* AddPeer: the first successful call names the peer under test, the later
\* ones add other peers behind it
RoundAddPeer(peer) ==
  /\ ret.fn = "round"
  /\ ret.stage \in {"start", "added"}
  /\ peer # ret.peer
  /\ \E key \in PrivateKeys, psk \in PresharedKeys :
       \E r \in {AddPeerOp(Disk, BlockVPN, peer, AllWorks, key, psk)} :
         RoundReturned("AddPeer", peer, r,
                       IF r.err # "" THEN ret
                       ELSE IF ret.stage = "start"
                       THEN [ret EXCEPT !.stage = "added", !.peer = peer,
                                        !.before = vpnFiles[BlockVPN],
                                        !.added = r.fs.vpn[BlockVPN]]
                       ELSE [ret EXCEPT !.others = @ \cup {peer}])

\* DeletePeer of the peer under test
RoundDeletePeer ==
  /\ ret.fn = "round"
  /\ ret.stage = "added"
  /\ \E r \in {DeletePeerOp(Disk, BlockVPN, ret.peer, AllWorks)} :
       RoundReturned("DeletePeer", ret.peer, r,
                     [ret EXCEPT !.stage = "deleted", !.later = vpnFiles[BlockVPN]])

NextRound ==
  \/ \E peer \in PeerNames : RoundAddPeer(peer)
  \/ RoundDeletePeer

SpecRound == RoundInit /\ [][NextRound]_vars

-----------------------------------------------------------------------------
(* removePeerBlock on texts edited by hand: up to two [Peer] blocks behind *)
(* the rendered Interface section, each with no, one or two blank lines    *)
(* above it, tagged or not, and the text ending in no, one or two newlines *)

SlotDraws ==
  {[present |-> FALSE, gap |-> 0, tag |-> <<>>, host |-> 0]}
  \cup {[present |-> TRUE, gap |-> g, tag |-> t, host |-> h] :
          g \in 0..2, t \in PeerNames \cup {<<>>}, h \in {2, 3}}

LineDraws ==
  {[kind |-> "lines", first |-> a, second |-> b, ending |-> e] :
     a \in SlotDraws, b \in SlotDraws, e \in Endings}

\* the lines a drawn block adds to the text
SlotLines(b) ==
  LET psk == CHOOSE k \in PresharedKeys : TRUE
      pub == DerivePublicKey(CHOOSE k \in PrivateKeys : TRUE)
      addr == SubnetPrefix \o <<".","1",".">> \o Itoa(b.host) \o <<"/">> \o Itoa(PeerMask)
      blk == renderServerPeerBlock(BlockVPN, b.tag, pub, psk, addr)
      body == SubSeq(blk, IF b.tag = <<>> THEN 2 ELSE 1, Len(blk) - 1)
  IN IF ~b.present THEN <<>> ELSE [k \in 1..b.gap |-> <<>>] \o body

DrawnLines(d) ==
  LET head == TrimRightNewlines(DrawnVPNFile(BlockVPN, BlockVPNFile))
      body == head \o SlotLines(d.first) \o SlotLines(d.second)
  IN IF d.ending = "none" THEN body
     ELSE IF d.ending = "one" THEN Concat(body, Newline)
     ELSE Concat(body, Concat(Newline, Newline))

LinesInit ==
  /\ drawn \in LineDraws
  /\ wgDir = TRUE
  /\ peersDir = TRUE
  /\ vpnFiles = [v \in VPNNames |-> IF v = BlockVPN THEN DrawnLines(drawn) ELSE NoFile]
  /\ peerFiles = [r \in VPNNames \X PeerNames |-> NoFile]
  /\ last = NoCall
  /\ calls = 0
  /\ ret = [NoTextRet EXCEPT !.fn = "lines"]

CallRemovePeerBlockLines(peer, probe) ==
  /\ ret.fn = "lines"
  /\ \E r \in {removePeerBlock(vpnFiles[BlockVPN], [VPN |-> BlockVPN, Peer |-> peer], probe)} :
       ret' = [fn |-> "removed", peer |-> peer, raw |-> probe, probe |-> probe,
               content |-> r.content, removed |-> r.removed]
  /\ UNCHANGED <<wgDir, peersDir, vpnFiles, peerFiles, last, calls, drawn>>

NextLines ==
  \E peer \in RefPeers, probe \in {<<"6","9",".","0",".","1",".","2","/","3","2">>, <<"6","9",".","0",".","1",".","9","/","3","2">>} :
    CallRemovePeerBlockLines(peer, probe)

SpecLines == LinesInit /\ [][NextLines]_vars

-----------------------------------------------------------------------------
(* firstSectionValue and allSectionValues on drawn contents: a few lines,  *)
(* each a blank line, a comment, a section header, a key with a value or a *)
(* line that is neither                                                    *)

\* the most lines a drawn content has
MaxScanLines == 3

\* what a line is meant to be: role "skip" for blank and comment lines,
\* "header" with the section named, "kv" with the key in lower case and the
\* value, "junk" for a line without a key
ScanLines ==
  {[text |-> <<>>, role |-> "skip", name |-> <<>>, val |-> <<>>],
   [text |-> <<"#"," ","K","e","y"," ","="," ","c">>, role |-> "skip", name |-> <<>>, val |-> <<>>],
   [text |-> <<" "," ",";"," ","K","e","y"," ","="," ","c">>, role |-> "skip", name |-> <<>>, val |-> <<>>],
   [text |-> <<"[","A","]">>, role |-> "header", name |-> <<"A">>, val |-> <<>>],
   [text |-> <<" ","["," ","B"," ","]"," ">>, role |-> "header", name |-> <<"B">>, val |-> <<>>],
   [text |-> <<"[","a","]">>, role |-> "header", name |-> <<"a">>, val |-> <<>>],
   [text |-> <<"K","e","y"," ","="," ","1">>, role |-> "kv", name |-> <<"k","e","y">>, val |-> <<"1">>],
   [text |-> <<" "," ","k","E","Y","=","2","=","3"," "," ">>, role |-> "kv", name |-> <<"k","e","y">>, val |-> <<"2","=","3">>],
   [text |-> <<"K","e","y"," ","=">>, role |-> "kv", name |-> <<"k","e","y">>, val |-> <<>>],
   [text |-> <<"O","t","h","e","r"," ","="," ","4">>, role |-> "kv", name |-> <<"o","t","h","e","r">>, val |-> <<"4">>],
   [text |-> <<"K","e","y">>, role |-> "junk", name |-> <<>>, val |-> <<>>],
   [text |-> <<"="," ","5">>, role |-> "junk", name |-> <<>>, val |-> <<>>]}

ScanDraws ==
  {[kind |-> "scan", lines |-> ls] : ls \in UNION {[1..n -> ScanLines] : n \in 0..MaxScanLines}}

\* the keys asked for, with their lower-case form
ScanKeys == {[text |-> <<"K","e","y">>, lower |-> <<"k","e","y">>], [text |-> <<"O","T","H","E","R">>, lower |-> <<"o","t","h","e","r">>]}

\* strings.Split(content, "\n") of the drawn lines joined by newlines
ScanContent(d) ==
  IF d.lines = <<>> THEN EmptyContent ELSE [k \in 1..Len(d.lines) |-> d.lines[k].text]

NoScan ==
  [fn |-> "scan", section |-> <<>>, key |-> <<>>, lower |-> <<>>, first |-> <<>>, all |-> <<>>]

ScanInit ==
  /\ drawn \in ScanDraws
  /\ wgDir = TRUE
  /\ peersDir = TRUE
  /\ vpnFiles = [v \in VPNNames |-> IF v = BlockVPN THEN ScanContent(drawn) ELSE NoFile]
  /\ peerFiles = [r \in VPNNames \X PeerNames |-> NoFile]
  /\ last = NoCall
  /\ calls = 0
  /\ ret = NoScan

\* both functions applied to the drawn content with one section and one key
CallSectionValues(sectionName, key) ==
  /\ ret = NoScan
  /\ ret' = [fn |-> "scanned", section |-> sectionName, key |-> key.text, lower |-> key.lower,
             first |-> firstSectionValue(vpnFiles[BlockVPN], sectionName, key.text),
             all |-> allSectionValues(vpnFiles[BlockVPN], sectionName, key.text)]
  /\ UNCHANGED <<wgDir, peersDir, vpnFiles, peerFiles, last, calls, drawn>>

NextScan == \E sectionName \in {<<"A">>, <<"B">>, <<>>}, key \in ScanKeys : CallSectionValues(sectionName, key)

SpecScan == ScanInit /\ [][NextScan]_vars

-----------------------------------------------------------------------------
(* AddPeer and DeletePeer with one file-system call failing: a write that  *)
(* fails before the file is opened changes nothing, a write that fails     *)
(* after the file was opened leaves it truncated to what was written, and  *)
(* a failed removal leaves the file                                        *)

\* the calls made under one drawn fault
MaxFaultCalls == 4

\* the operation and the call in it that fails; how is "before" when the
\* call fails before the file is opened (os.ReadFile, os.MkdirAll, the open
\* in os.WriteFile) and "partial" when os.WriteFile fails after writing the
\* first keep lines
FaultDraws ==
  {[kind |-> "fault", op |-> o, at |-> a, how |-> h[1], keep |-> h[2]] :
     o \in {"AddPeer", "DeletePeer"}, a \in {"none", "vpnconf", "peerconf", "remove"},
     h \in {<<"before", 0>>, <<"partial", 0>>, <<"partial", 2>>}}

NoFault == [kind |-> "fault", op |-> "none", at |-> "none", how |-> "before", keep |-> 0]

\* what os.WriteFile leaves when it fails after the first keep lines
PartialWrite(data, keep) ==
  IF keep = 0 THEN EmptyContent ELSE SubSeq(data, 1, keep)

\* Manager.writeFile with the drawn call failing
writeFileFailing(fs, rep, path, data, fault) ==
  LET old == ReadPath(fs, path)
      hit == fault.at = path.kind
  IN IF hit /\ fault.how = "before" THEN [fs |-> fs, rep |-> rep, err |-> "write failed"]
     ELSE IF old # NoFile /\ old = data THEN [fs |-> fs, rep |-> rep, err |-> ""]
     ELSE IF hit
     THEN [fs |-> WritePath(fs, path, PartialWrite(data, fault.keep)), rep |-> rep,
           err |-> "write failed"]
     ELSE [fs |-> WritePath(fs, path, data),
           rep |-> addChange(rep, IF old # NoFile THEN "updated" ELSE "created", path),
           err |-> ""]

\* AddPeer writing the client file before the VPN's file
AddPeerFailingOp_ClientFirst(fs, vpnName, peerName, env, clean, fault) ==
  LET d == ensureDir(fs, NoReport, PeersDir)
      vpnPath == VPNConfigPath(vpnName)
      peerPath == PeerConfigPath(vpnName, peerName)
      w1 == writeFileFailing(d.fs, d.rep, peerPath, ReadPath(clean.fs, peerPath), fault)
      w2 == writeFileFailing(w1.fs, w1.rep, vpnPath, ReadPath(clean.fs, vpnPath), fault)
  IN IF clean.err # "" THEN clean
     ELSE IF w1.err # "" THEN Result(w1.fs, w1.rep, w1.err)
     ELSE IF w2.err # "" THEN Result(w2.fs, w2.rep, w2.err)
     ELSE Result(w2.fs, maybeVPNRestart(env.sys, w2.rep, vpnName), "")

\* Manager.AddPeer from its two writes on: everything before them is
\* AddPeerOp, whose result, clean, holds the two texts it is about to write
AddPeerFailingOp(fs, vpnName, peerName, env, clean, fault) ==
  LET d == ensureDir(fs, NoReport, PeersDir)
      vpnPath == VPNConfigPath(vpnName)
      peerPath == PeerConfigPath(vpnName, peerName)
      w1 == writeFileFailing(d.fs, d.rep, vpnPath, ReadPath(clean.fs, vpnPath), fault)
      w2 == writeFileFailing(w1.fs, w1.rep, peerPath, ReadPath(clean.fs, peerPath), fault)
  IN IF clean.err # "" THEN clean
     ELSE IF w1.err # "" THEN Result(w1.fs, w1.rep, w1.err)
     ELSE IF w2.err # "" THEN Result(w2.fs, w2.rep, w2.err)
     ELSE Result(w2.fs, maybeVPNRestart(env.sys, w2.rep, vpnName), "")

\* Manager.DeletePeer from the rewrite of the VPN's file on: everything
\* before it is DeletePeerOp, whose result, clean, holds the text it is about
\* to write; the file is rewritten only when a block was removed
DeletePeerFailingOp(fs, vpnName, peerName, env, clean, fault) ==
  LET vpnPath == VPNConfigPath(vpnName)
      peerPath == PeerConfigPath(vpnName, peerName)
      removed == ReadPath(fs, vpnPath) # NoFile /\ ReadPath(clean.fs, vpnPath) # ReadPath(fs, vpnPath)
      w == IF removed
           THEN writeFileFailing(fs, NoReport, vpnPath, ReadPath(clean.fs, vpnPath), fault)
           ELSE [fs |-> fs, rep |-> NoReport, err |-> ""]
  IN IF clean.err # "" THEN clean
     ELSE IF w.err # "" THEN Result(w.fs, w.rep, w.err)
     ELSE IF fault.at = "remove" THEN Result(w.fs, w.rep, "remove failed")
     ELSE clean

\* ret keeps the disk the last call started from and what the call would
\* have returned and left with nothing failing
NoFaultRet == [fn |-> "fault", before |-> EmptyDisk, cleanErr |-> "", clean |-> EmptyDisk]

FaultInit ==
  /\ drawn \in FaultDraws
  /\ wgDir = FALSE
  /\ peersDir = FALSE
  /\ vpnFiles = [v \in VPNNames |-> NoFile]
  /\ peerFiles = [r \in VPNNames \X PeerNames |-> NoFile]
  /\ last = NoCall
  /\ calls = 0
  /\ ret = NoFaultRet

FaultReturned(op, vpn, peer, r, clean) ==
  /\ calls < MaxFaultCalls
  /\ ret.fn = "fault"
  /\ calls' = calls + 1
  /\ wgDir' = r.fs.wg
  /\ peersDir' = r.fs.peers
  /\ vpnFiles' = r.fs.vpn
  /\ peerFiles' = r.fs.peer
  /\ last' = [op |-> op, vpn |-> vpn, peer |-> peer, err |-> r.err, rep |-> r.rep]
  /\ ret' = [fn |-> "fault", before |-> Disk, cleanErr |-> clean.err, clean |-> clean.fs]
  /\ UNCHANGED drawn

\* the fault strikes the calls of the drawn operation only
FaultIn(op) == IF drawn.op = op THEN drawn ELSE NoFault

FaultAddVPN(name) ==
  \E key \in PrivateKeys :
    \E r \in {AddVPNOp(Disk, name, AllWorks, key)} : FaultReturned("AddVPN", name, <<>>, r, r)

FaultAddPeer(vpnName, peerName) ==
  \E key \in PrivateKeys, psk \in PresharedKeys :
    \E clean \in {AddPeerOp(Disk, vpnName, peerName, AllWorks, key, psk)} :
      \E r \in {AddPeerFailingOp(Disk, vpnName, peerName, AllWorks, clean, FaultIn("AddPeer"))} :
        FaultReturned("AddPeer", vpnName, peerName, r, clean)

FaultDeletePeer(vpnName, peerName) ==
  \E clean \in {DeletePeerOp(Disk, vpnName, peerName, AllWorks)} :
    \E r \in {DeletePeerFailingOp(Disk, vpnName, peerName, AllWorks, clean, FaultIn("DeletePeer"))} :
      FaultReturned("DeletePeer", vpnName, peerName, r, clean)

NextFault ==
  \/ FaultAddVPN(<<"h">>)
  \/ \E p \in PeerNames : FaultAddPeer(<<"h">>, p)
  \/ \E p \in PeerNames : FaultDeletePeer(<<"h">>, p)

SpecFault == FaultInit /\ [][NextFault]_vars

-----------------------------------------------------------------------------
(* Reading the disk and the draw, for the properties below                 *)

SetMax(S) == CHOOSE x \in S : \A y \in S : y <= x

\* the ownership tag line renderServerPeerBlock writes for (vpn, peer)
TagLine(vpn, peer) == <<"#"," ","b","p","-","m","a","n","a","g","e","d",":"," ","v","p","n","=">> \o vpn \o <<",","p","e","e","r","=">> \o peer

\* where in a content a [Peer] header sits directly under the tag line of (vpn, peer)
TaggedBlocks(content, vpn, peer) ==
  {i \in 2..Len(content) : content[i] = PeerHeader /\ content[i - 1] = TagLine(vpn, peer)}

ExistingVPNs == {v \in VPNNames : vpnFiles[v] # NoFile}

ListenPortOf(vpn) == Atoi(firstSectionValue(vpnFiles[vpn], Interface, <<"L","i","s","t","e","n","P","o","r","t">>))

VPNOctetOf(vpn) == parseBPAddress(SubnetPrefix, firstSectionValue(vpnFiles[vpn], Interface, <<"A","d","d","r","e","s","s">>))

PeerAddrsOf(vpn) ==
  LET ips == allSectionValues(vpnFiles[vpn], Peer, <<"A","l","l","o","w","e","d","I","P","s">>)
  IN [i \in 1..Len(ips) |-> parseBPAddress(SubnetPrefix, ips[i])]

\* the ports, vpn octets and host octets the draw put on disk in parseable form
DrawnPortsUsed ==
  {drawn.files[v].port : v \in {x \in VPNNames : drawn.files[x].present /\ drawn.files[x].portKind = "ok"}}

DrawnOctetsUsed ==
  {drawn.files[v].octet : v \in {x \in VPNNames : drawn.files[x].present /\ drawn.files[x].addrKind = "ok"}}

DrawnHostsUsed(vpn, vpnOctet) ==
  IF vpn # BlockVPN THEN {}
  ELSE {drawn.blocks[i].host :
          i \in {k \in 1..Len(drawn.blocks) : drawn.blocks[k].parse /\ drawn.blocks[k].octet = vpnOctet}}

\* the drawn file of BlockVPN holding only the listed blocks
TextOf(blocks) == DrawnText(DrawnVPNFile(BlockVPN, BlockVPNFile), blocks)

-----------------------------------------------------------------------------
(* C1 - C10                                                                *)

\* C1: on a text holding the tagged blocks of two distinct peers p and q with
\* different addresses, removePeerBlock(text, (v,p), address of p) returns
\* removed = true and exactly the text that holds q's tagged block alone,
\* whatever the two names are.
C1_RemovesOnlyTarget ==
  \A i \in {1, 2} :
    LET p == drawn.blocks[i]
        q == drawn.blocks[3 - i]
    IN ( /\ ret.fn = "removePeerBlock"
         /\ drawn.kind = "text"
         /\ Len(drawn.blocks) = 2
         /\ p.tag # <<>> /\ q.tag # <<>> /\ p.tag # q.tag
         /\ DrawnAddr(p) # DrawnAddr(q)
         /\ ret.vpn = BlockVPN /\ ret.peer = p.tag /\ ret.probe = DrawnAddr(p) )
       => /\ ret.removed
          /\ ret.content = TextOf(<<q>>)

\* C2: removePeerBlock(text, (v,p), probe) leaves in place every block whose
\* ownership tag names another peer q (here: a q whose name does not contain
\* p, so that the tag test itself cannot match), also when that block's
\* AllowedIPs equals the probe.
C2_TagIsAuthoritative ==
  ( ret.fn = "removePeerBlock" /\ drawn.kind = "text" /\ ret.vpn = BlockVPN )
  => \A q \in PeerNames :
       ( q # ret.peer /\ ~Contains(q, ret.peer) )
       => Cardinality(TaggedBlocks(ret.content, BlockVPN, q))
            = Cardinality(TaggedBlocks(vpnFiles[BlockVPN], BlockVPN, q))

\* C3: every client peer file (v,p) on disk whose VPN config file exists has
\* exactly one [Peer] block tagged vpn=v,peer=p in that config file.
C3_PeerFileHasOneBlock ==
  \A r \in VPNNames \X PeerNames :
    ( peerFiles[r] # NoFile /\ vpnFiles[r[1]] # NoFile )
    => Cardinality(TaggedBlocks(vpnFiles[r[1]], r[1], r[2])) = 1

\* C4: the VPN config files on disk carry pairwise distinct ListenPort values,
\* each within [MinPort, MaxPort].
C4_PortsDistinctInRange ==
  \A v \in ExistingVPNs :
    /\ ListenPortOf(v).ok
    /\ ListenPortOf(v).n >= MinPort
    /\ ListenPortOf(v).n <= MaxPort
    /\ \A w \in ExistingVPNs \ {v} : ListenPortOf(w).n # ListenPortOf(v).n

\* two VPN config files on disk, none on the first port: a VPN was deleted and
\* a later AddVPN allocated again
C4_Witness ==
  /\ ExistingVPNs = VPNNames
  /\ \A v \in VPNNames : ListenPortOf(v).n > MinPort

\* C5: the VPN config files on disk carry pairwise distinct vpn octets in their
\* Interface Address, each within [1, 254].
C5_VPNOctetsDistinctInRange ==
  \A v \in ExistingVPNs :
    /\ VPNOctetOf(v).ok
    /\ VPNOctetOf(v).vpnOctet >= 1
    /\ VPNOctetOf(v).vpnOctet <= MaxVPNOctet
    /\ \A w \in ExistingVPNs \ {v} : VPNOctetOf(w).vpnOctet # VPNOctetOf(v).vpnOctet

\* two VPN config files on disk, the later one written after a deletion
C5_Witness ==
  /\ ExistingVPNs = VPNNames
  /\ \E v \in VPNNames : VPNOctetOf(v).vpnOctet = 3
  /\ last.op = "AddVPN" /\ last.err = ""

\* C6: within one VPN config file the AllowedIPs entries of the [Peer] blocks
\* have pairwise distinct host octets, each within [2, 254]; host 1 is never
\* given to a peer.
C6_HostOctetsDistinctInRange ==
  \A v \in ExistingVPNs :
    LET a == PeerAddrsOf(v)
    IN \A i \in DOMAIN a :
         /\ a[i].ok
         /\ a[i].hostOctet >= 2
         /\ a[i].hostOctet <= MaxHostOctet
         /\ \A k \in DOMAIN a : k # i => a[k].hostOctet # a[i].hostOctet

\* a VPN file with two peer blocks, the second added after a peer was deleted
C6_Witness ==
  \E v \in ExistingVPNs :
    /\ Len(PeerAddrsOf(v)) = 2
    /\ \A i \in 1..2 : PeerAddrsOf(v)[i].hostOctet > 2
    /\ last.op = "AddPeer" /\ last.err = ""

\* C7 as stated: an allocator reports exhaustion exactly when no value of its
\* range is free ([MinPort, MaxPort] over all VPN files, [1, 254] over all VPN
\* files, [2, 254] within the VPN's file).
C7_FailsIffNoFreeValue ==
  /\ ret.fn = "nextAvailablePort" => (~ret.ok <=> (MinPort..MaxPort) \subseteq DrawnPortsUsed)
  /\ ret.fn = "nextVPNSubnetOctet" => (~ret.ok <=> (1..MaxVPNOctet) \subseteq DrawnOctetsUsed)
  /\ ret.fn = "nextPeerHostOctet"
       => (~ret.ok <=> (2..MaxHostOctet) \subseteq DrawnHostsUsed(ret.vpn, ret.octet))

\* C7 amended: an allocator reports exhaustion exactly when the highest value
\* in use has reached the top of its range (lower values freed by deletions
\* are not handed out again); AddVPN returns the port error only then, the
\* vpn-octet error only when the ports are not exhausted and the octets are,
\* and succeeds only when neither is; AddPeer returns the host-octet error
\* only when the VPN's highest host octet is 254 and succeeds only below it.
C7_FailsIffTopReached ==
  /\ ret.fn = "nextAvailablePort"
       => (~ret.ok <=> SetMax(DrawnPortsUsed \cup {MinPort - 1}) >= MaxPort)
  /\ ret.fn = "nextVPNSubnetOctet"
       => (~ret.ok <=> SetMax(DrawnOctetsUsed \cup {0}) >= MaxVPNOctet)
  /\ ret.fn = "nextPeerHostOctet"
       => (~ret.ok <=> SetMax(DrawnHostsUsed(ret.vpn, ret.octet) \cup {1}) >= MaxHostOctet)
  /\ last.op = "AddVPN" =>
       /\ last.err = "no available port"
            => SetMax(DrawnPortsUsed \cup {MinPort - 1}) >= MaxPort
       /\ last.err = "no available vpn subnet octet"
            => /\ SetMax(DrawnPortsUsed \cup {MinPort - 1}) < MaxPort
               /\ SetMax(DrawnOctetsUsed \cup {0}) >= MaxVPNOctet
       /\ last.err = ""
            => /\ SetMax(DrawnPortsUsed \cup {MinPort - 1}) < MaxPort
               /\ SetMax(DrawnOctetsUsed \cup {0}) < MaxVPNOctet
  /\ last.op = "AddPeer" =>
       /\ last.err = "no available peer addresses"
            => SetMax(DrawnHostsUsed(last.vpn, drawn.files[last.vpn].octet) \cup {1}) >= MaxHostOctet
       /\ last.err = ""
            => SetMax(DrawnHostsUsed(last.vpn, drawn.files[last.vpn].octet) \cup {1}) < MaxHostOctet

\* AddVPN refused for want of a port while the first port of the range is free
C7_Witness ==
  /\ last.op = "AddVPN"
  /\ last.err = "no available port"
  /\ MinPort \notin DrawnPortsUsed

\* C8: nextAvailablePort returns 1 + max(MinPort - 1, the parseable ListenPort
\* values on disk), never below MinPort, and an error instead of a value once
\* that candidate exceeds MaxPort; files without a parseable ListenPort do not
\* count.
C8_NextPortIsMaxPlusOne ==
  ret.fn = "nextAvailablePort" =>
    LET candidate == SetMax(DrawnPortsUsed \cup {MinPort - 1}) + 1
    IN IF candidate > MaxPort THEN ~ret.ok
       ELSE ret.ok /\ ret.n = candidate /\ ret.n >= MinPort

\* existing ports {MinPort, MinPort + 3} ({55107, 55110}) give MinPort + 4 (55111)
C8_Witness ==
  /\ ret.fn = "nextAvailablePort"
  /\ DrawnPortsUsed = {MinPort, MinPort + 3}
  /\ ret.ok /\ ret.n = MinPort + 4

\* C9: nextVPNSubnetOctet returns 1 + the highest vpn octet among the Interface
\* Address values on disk that parse against the prefix (0 when there is
\* none), and an error once that candidate exceeds 254.
C9_NextVPNOctetIsMaxPlusOne ==
  ret.fn = "nextVPNSubnetOctet" =>
    LET candidate == SetMax(DrawnOctetsUsed \cup {0}) + 1
    IN IF candidate > MaxVPNOctet THEN ~ret.ok ELSE ret.ok /\ ret.n = candidate

\* existing octets {1, 2} give 3, beside a file whose Address does not count
C9_Witness ==
  /\ ret.fn = "nextVPNSubnetOctet"
  /\ DrawnOctetsUsed = {1, 2}
  /\ ret.ok /\ ret.n = 3

\* C10: nextPeerHostOctet(vpnText, vpnOctet) returns 1 + max(1, the host octets
\* of the AllowedIPs entries that parse against the prefix with that vpn
\* octet), and an error once that candidate exceeds 254; other entries do not
\* count.
C10_NextHostIsMaxPlusOne ==
  ret.fn = "nextPeerHostOctet" =>
    LET candidate == SetMax(DrawnHostsUsed(ret.vpn, ret.octet) \cup {1}) + 1
    IN IF candidate > MaxHostOctet THEN ~ret.ok ELSE ret.ok /\ ret.n = candidate

\* existing host octets {2, 3} give 4
C10_Witness ==
  /\ ret.fn = "nextPeerHostOctet"
  /\ drawn.kind = "text"
  /\ DrawnHostsUsed(ret.vpn, ret.octet) = {2, 3}
  /\ ret.ok /\ ret.n = 4

-----------------------------------------------------------------------------
(* C11 - C20                                                               *)

\* the [Peer] headers of a content
PeerHeaders(content) == {i \in 1..Len(content) : TrimSpace(content[i]) = PeerHeader}

\* the host octets of a VPN content's AllowedIPs entries under the vpn octet
\* of its own Interface Address
HostsIn(content) ==
  LET own == parseBPAddress(SubnetPrefix, firstSectionValue(content, Interface, <<"A","d","d","r","e","s","s">>))
      ips == allSectionValues(content, Peer, <<"A","l","l","o","w","e","d","I","P","s">>)
  IN {parseBPAddress(SubnetPrefix, ips[i]).hostOctet :
        i \in {k \in DOMAIN ips : /\ parseBPAddress(SubnetPrefix, ips[k]).ok
                                  /\ parseBPAddress(SubnetPrefix, ips[k]).vpnOctet = own.vpnOctet}}

\* the host octet a client peer file carries in its Interface Address
ClientHost(content) ==
  parseBPAddress(SubnetPrefix, firstSectionValue(content, Interface, <<"A","d","d","r","e","s","s">>)).hostOctet

\* the logged run went: DeletePeer(v, p) succeeded on a VPN file holding p's
\* block and no other, then AddPeer(v, q) succeeded
ReaddedAfterLastDelete ==
  /\ Len(ret.log) = 2
  /\ ret.log[1].op = "DeletePeer" /\ ret.log[1].err = ""
  /\ ret.log[2].op = "AddPeer" /\ ret.log[2].err = ""
  /\ ret.log[2].vpn = ret.log[1].vpn
  /\ LET text == ret.log[1].before.vpn[ret.log[1].vpn]
     IN /\ text # NoFile
        /\ Cardinality(PeerHeaders(text)) = 1
        /\ Cardinality(TaggedBlocks(text, ret.log[1].vpn, ret.log[1].peer)) = 1

\* C11: when DeletePeer succeeded on the only peer of VPN v and AddPeer(v, q)
\* succeeded next, q has host octet 2, in its client file and in v's file;
\* and every successful AddPeer(v, q) gives 1 + max(1, the host octets in v's
\* file as it was when the call started), whatever calls came before.
C11_ReaddGetsOctetTwo ==
  /\ ReaddedAfterLastDelete
       => /\ ClientHost(peerFiles[<<last.vpn, last.peer>>]) = 2
          /\ HostsIn(vpnFiles[last.vpn]) = {2}
  /\ ( Len(ret.log) > 0 /\ last.op = "AddPeer" /\ last.err = "" )
       => ClientHost(peerFiles[<<last.vpn, last.peer>>])
            = 1 + SetMax(HostsIn(ret.log[Len(ret.log)].before.vpn[last.vpn]) \cup {1})

\* the peer deleted last is followed by a peer of another name, which gets 2
C11_Witness ==
  /\ ReaddedAfterLastDelete
  /\ ret.log[2].peer # ret.log[1].peer
  /\ ClientHost(peerFiles[<<last.vpn, last.peer>>]) = 2

\* the changes the last writeFile or ensureDir call added to the Report
AddedChanges ==
  SubSeq(ret.rep.changes, Len(ret.repBefore.changes) + 1, Len(ret.rep.changes))

\* the content writeFile found at its path
OldContent == ReadPath(ret.before, ret.path)

\* the last two calls were writeFile with the same path and the same data
WroteTwice ==
  /\ ret.fn = "writeFile" /\ ret.prevFn = "writeFile"
  /\ ret.prevPath = ret.path /\ ret.prevData = ret.data

\* the three cases of one writeFile(path, data): identical content, nothing
\* written and nothing recorded; different content, the file overwritten and
\* one 'updated' recorded; no file, the file written and one 'created'
\* recorded for it; in each case the file then holds data and no other file,
\* warning or runtime action changes
WriteFileCases ==
  ret.fn = "writeFile" =>
    /\ ReadPath(Disk, ret.path) = ret.data
    /\ \A q \in WritePaths \ {ret.path} : ReadPath(Disk, q) = ReadPath(ret.before, q)
    /\ ret.rep.warnings = ret.repBefore.warnings
    /\ ret.rep.runtime = ret.repBefore.runtime
    /\ SubSeq(ret.rep.changes, 1, Len(ret.repBefore.changes)) = ret.repBefore.changes
    /\ OldContent = ret.data => (Disk = ret.before /\ AddedChanges = <<>>)
    /\ (OldContent # NoFile /\ OldContent # ret.data)
         => AddedChanges = <<[action |-> "updated", path |-> ret.path]>>
    /\ OldContent = NoFile
         => SelectSeq(AddedChanges, LAMBDA c : c.path = ret.path)
              = <<[action |-> "created", path |-> ret.path]>>

\* C12 as stated: the three cases of writeFile, and writing the same content
\* twice in a row records exactly one change in total.
C12_TwiceRecordsOne ==
  /\ WriteFileCases
  /\ WroteTwice => Len(ret.rep.changes) - Len(ret.firstRep.changes) = 1

\* C12 amended: the three cases of writeFile, and of two writes of the same
\* content in a row the second writes and records nothing; the two record one
\* change in total when the file was absent or different before the first,
\* and none when it already held the content.
C12_SecondWriteRecordsNothing ==
  /\ WriteFileCases
  /\ WroteTwice =>
       /\ Disk = ret.before
       /\ AddedChanges = <<>>
       /\ Len(ret.rep.changes) - Len(ret.firstRep.changes)
            = IF ReadPath(ret.firstBefore, ret.path) = ret.data THEN 0 ELSE 1

\* the same content written twice to a path that held another content: one
\* 'updated' from the first write, nothing from the second
C12_Witness ==
  /\ WroteTwice
  /\ ReadPath(ret.firstBefore, ret.path) \notin {NoFile, ret.data}
  /\ ret.rep.changes = <<[action |-> "updated", path |-> ret.path]>>

\* C13: a writeFile that creates a file under a directory that did not exist
\* leaves the directory in place and records 'created' for the directory and
\* 'created' for the file; under an existing directory it records 'created'
\* for the file alone.
C13_WriteFileRecordsNewDir ==
  ( ret.fn = "writeFile" /\ OldContent = NoFile ) =>
    /\ DirExists(Disk, ParentDir(ret.path))
    /\ IF DirExists(ret.before, ParentDir(ret.path))
       THEN AddedChanges = <<[action |-> "created", path |-> ret.path]>>
       ELSE /\ Len(AddedChanges) = 2
            /\ \E i \in 1..2 : AddedChanges[i] = [action |-> "created", path |-> ParentDir(ret.path)]
            /\ \E i \in 1..2 : AddedChanges[i] = [action |-> "created", path |-> ret.path]

\* a drawn string that is non-empty and made of lowercase letters and digits
GoodName(s) == s # <<>> /\ \A i \in 1..Len(s) : s[i] \in GoodChars

\* the last manager call was handed a name that is not a GoodName
CalledWithBadName ==
  /\ last.op # "none"
  /\ \/ ~GoodName(last.vpn)
     \/ last.op \in {"AddPeer", "DeletePeer"} /\ ~GoodName(last.peer)

\* C14: ValidateName accepts exactly the non-empty strings of lowercase
\* letters and digits; AddVPN, DeleteVPN, AddPeer and DeletePeer handed any
\* other string as a name return the invalid-name error, leave every
\* directory and file as it was and record no change.
C14_BadNamesRejectedUntouched ==
  /\ ret.fn = "ValidateName" => (ret.ok <=> GoodName(ret.s))
  /\ CalledWithBadName =>
       /\ last.err \in {"invalid vpn name", "invalid peer name"}
       /\ Disk = last.before
       /\ last.rep.changes = <<>>

\* AddPeer on an existing VPN with a peer name that holds an uppercase letter
\* or a colon
C14_Witness ==
  /\ last.op = "AddPeer"
  /\ GoodName(last.vpn) /\ last.before.vpn[last.vpn] # NoFile
  /\ ~GoodName(last.peer) /\ last.peer # <<>>
  /\ last.err = "invalid peer name"

\* the positions of ':' in a string
Colons(s) == {i \in 1..Len(s) : s[i] = ":"}

\* C15: ParsePeerRef(s) succeeds exactly when s holds one ':' with a GoodName
\* on each side, and then returns the two sides; every other string (no
\* colon, an empty side, a second colon, an invalid side) is rejected; and
\* for valid names v and p, ParsePeerRef(PeerRef{v, p}.String()) = PeerRef{v, p}.
C15_ParsePeerRefExact ==
  /\ ret.fn = "ParsePeerRef" =>
       IF Cardinality(Colons(ret.s)) = 1
       THEN LET i == CHOOSE k \in Colons(ret.s) : TRUE
                v == SubSeq(ret.s, 1, i - 1)
                p == SubSeq(ret.s, i + 1, Len(ret.s))
            IN IF GoodName(v) /\ GoodName(p)
               THEN ret.ok /\ ret.VPN = v /\ ret.Peer = p
               ELSE ~ret.ok
       ELSE ~ret.ok
  /\ ret.fn = "PeerRef.String" =>
       /\ ret.s = ret.ref.VPN \o <<":">> \o ret.ref.Peer
       /\ ret.ok
       /\ ret.VPN = ret.ref.VPN /\ ret.Peer = ret.ref.Peer

\* "h:a" parsed into PeerRef{h, a}
C15_Witness ==
  /\ ret.fn = "ParsePeerRef"
  /\ ret.s = <<"h",":","a">>
  /\ ret.ok /\ ret.VPN = <<"h">> /\ ret.Peer = <<"a">>

\* C16 - C17: removePeerBlock on texts with any ending

\* the tag line names the VPN and then the peer, so "peer=<name>" is found in
\* it when <name> starts the tagged name
TagMatches(b, peer) ==
  /\ b.tag # <<>>
  /\ Len(peer) <= Len(b.tag)
  /\ SubSeq(b.tag, 1, Len(peer)) = peer

WithMask(raw) ==
  IF \E i \in 1..Len(raw) : raw[i] = "/" THEN raw ELSE raw \o <<"/","3","2">>

BlockMatches(b) == TagMatches(b, ret.peer) \/ DrawnAddr(b) = WithMask(ret.raw)

NothingMatches ==
  /\ ret.fn = "removePeerBlock"
  /\ \A i \in 1..Len(drawn.blocks) : ~BlockMatches(drawn.blocks[i])

\* the drawn text ending in exactly one newline, or empty when it is blank
OneNewline(blocks) ==
  IF drawn.blank THEN EmptyContent ELSE TextOf(blocks)

\* C16 as stated: when neither a tag nor an AllowedIPs value matches,
\* removePeerBlock returns removed=false and its input byte for byte
C16_NoMatchByteIdentical ==
  NothingMatches =>
    /\ ~ret.removed
    /\ ret.content = vpnFiles[BlockVPN]

\* C16 amended: when nothing matches, removePeerBlock returns removed=false and
\* the input with its trailing newlines normalized (none for a blank text,
\* exactly one otherwise), which is the input itself when the input is empty or
\* ends in exactly one newline after other text
C16_NoMatchNormalizesEnding ==
  NothingMatches =>
    /\ ~ret.removed
    /\ ret.content = OneNewline(drawn.blocks)
    /\ (drawn.ending = "one" /\ ~drawn.blank) => ret.content = vpnFiles[BlockVPN]
    /\ (drawn.ending = "none" /\ drawn.blank) => ret.content = vpnFiles[BlockVPN]

C16_Witness ==
  /\ NothingMatches
  /\ Len(drawn.blocks) = 2
  /\ drawn.ending = "two"
  /\ ~ret.removed
  /\ ret.content # vpnFiles[BlockVPN]
  /\ ret.content = TextOf(drawn.blocks)

UntaggedTarget ==
  /\ ret.fn = "removePeerBlock"
  /\ \E i \in 1..Len(drawn.blocks) :
       /\ drawn.blocks[i].tag = <<>>
       /\ DrawnAddr(drawn.blocks[i]) = WithMask(ret.raw)

KeptBlock(b) == ~BlockMatches(b)

\* C17: an untagged block holding the probe address (the raw address with
\* /PeerMask appended when it has no '/') is removed with removed=true, and the
\* blocks that neither hold that address nor match by tag stay, in order
C17_FallbackRemovesUntagged ==
  UntaggedTarget =>
    /\ ret.removed
    /\ ret.probe = WithMask(ret.raw)
    /\ ret.content = TextOf(SelectSeq(drawn.blocks, KeptBlock))

C17_Witness ==
  /\ UntaggedTarget
  /\ ~(\E i \in 1..Len(ret.raw) : ret.raw[i] = "/")
  /\ Len(drawn.blocks) = 2
  /\ drawn.blocks[1].tag = <<>>
  /\ drawn.blocks[2].tag # <<>>
  /\ KeptBlock(drawn.blocks[2])
  /\ ret.removed
  /\ ret.content = TextOf(<<drawn.blocks[2]>>)

\* C18 - C20: what one manager call does to the disk it started from

\* the step is the call op(v, p) with valid names
Calls(op, v, p) ==
  /\ calls' = calls + 1
  /\ last'.op = op
  /\ last'.vpn = v
  /\ last'.peer = p

\* no line of v's file tags a block with a name that p starts, and no
\* AllowedIPs line holds the address of p's client file
NoBlockFor(v, p) ==
  LET text == vpnFiles[v]
      addr == firstSectionValue(peerFiles[<<v, p>>], Interface, <<"A","d","d","r","e","s","s">>)
  IN \A i \in 1..Len(text) :
       /\ ~(HasPrefix(text[i], TagPrefix) /\ Contains(text[i], <<"p","e","e","r","=">> \o p))
       /\ text[i] # <<"A","l","l","o","w","e","d","I","P","s"," ","="," ">> \o addr

OnlyPeerFileDeleted(v, p) ==
  last'.rep.changes = <<[action |-> "deleted", path |-> PeerConfigPath(v, p)]>>

\* C18: DeletePeer(v, p) on an existing peer file removes the file, succeeds and
\* records its 'deleted' change; when v's file is absent or holds no matching
\* block it also warns, leaves v's file as it was and records no other change
C18_DeletePeerAlwaysDeletesFile ==
  [][\A v \in VPNNames, p \in PeerNames :
       (Calls("DeletePeer", v, p) /\ peerFiles[<<v, p>>] # NoFile) =>
         /\ last'.err = ""
         /\ peerFiles'[<<v, p>>] = NoFile
         /\ \E i \in 1..Len(last'.rep.changes) :
              last'.rep.changes[i] = [action |-> "deleted", path |-> PeerConfigPath(v, p)]
         /\ (vpnFiles[v] = NoFile \/ NoBlockFor(v, p)) =>
              /\ last'.rep.warnings # <<>>
              /\ vpnFiles'[v] = vpnFiles[v]
              /\ OnlyPeerFileDeleted(v, p)]_vars

\* DeletePeer succeeded on a VPN whose file exists and holds no [Peer] block
C18_Witness ==
  /\ last.op = "DeletePeer"
  /\ last.err = ""
  /\ last.vpn \in VPNNames
  /\ vpnFiles[last.vpn] # NoFile
  /\ PeerHeaders(vpnFiles[last.vpn]) = {}
  /\ last.rep.warnings = <<"peer block was not found">>
  /\ last.rep.changes = <<[action |-> "deleted", path |-> PeerConfigPath(last.vpn, last.peer)]>>

NotFoundOrExists ==
  {"vpn already exists", "peer already exists", "vpn does not exist", "peer does not exist"}

\* C19: a call that returns already-exists or not-found leaves the disk as it
\* was, files and directories, and its report lists no change
C19_ErrorsChangeNothing ==
  [][(calls' = calls + 1 /\ last'.err \in NotFoundOrExists) =>
       /\ wgDir' = wgDir
       /\ peersDir' = peersDir
       /\ vpnFiles' = vpnFiles
       /\ peerFiles' = peerFiles
       /\ last'.rep.changes = <<>>]_vars

LeftoverWarned == \E i \in 1..Len(last'.rep.warnings) : last'.rep.warnings[i] = "peer files still exist"

\* C20: DeleteVPN(v) on an existing VPN succeeds and removes v's file and
\* nothing else: the peer files, v's included, the other VPN files and the
\* directories stay, the one change recorded is v's file 'deleted', and the
\* leftover warning is given exactly when a peer file of v is on disk
C20_DeleteVPNRemovesOnlyItsFile ==
  [][\A v \in VPNNames :
       (Calls("DeleteVPN", v, <<>>) /\ vpnFiles[v] # NoFile) =>
         /\ last'.err = ""
         /\ vpnFiles' = [vpnFiles EXCEPT ![v] = NoFile]
         /\ peerFiles' = peerFiles
         /\ wgDir' = wgDir /\ peersDir' = peersDir
         /\ last'.rep.changes = <<[action |-> "deleted", path |-> VPNConfigPath(v)]>>
         /\ LeftoverWarned <=> (\E p \in PeerNames : peerFiles'[<<v, p>>] # NoFile)]_vars

\* DeleteVPN succeeded beside another VPN and left a peer file of its own
C20_Witness ==
  /\ last.op = "DeleteVPN"
  /\ last.err = ""
  /\ last.vpn \in VPNNames
  /\ vpnFiles[last.vpn] = NoFile
  /\ \E w \in VPNNames : vpnFiles[w] # NoFile
  /\ \E p \in PeerNames : peerFiles[<<last.vpn, p>>] # NoFile
  /\ \E i \in 1..Len(last.rep.warnings) : last.rep.warnings[i] = "peer files still exist"

\* C21 - C22: two invocations at once

HasWritten(proc) == proc.wroteNo > 0

\* p and q are AddVPN invocations of different names that both returned success
BothAddedVPN(p, q) ==
  /\ ret.procs[p].op = "AddVPN" /\ ret.procs[q].op = "AddVPN"
  /\ ret.procs[p].vpn # ret.procs[q].vpn
  /\ ret.procs[p].pc = "done" /\ ret.procs[q].pc = "done"
  /\ HasWritten(ret.procs[p]) /\ HasWritten(ret.procs[q])

\* both made both of their scans of the same directory, before either wrote
ScannedBeforeEitherWrote(p, q) ==
  LET a == ret.procs[p]
      b == ret.procs[q]
  IN /\ a.sawPort = b.sawPort /\ a.sawOctet = a.sawPort /\ b.sawOctet = b.sawPort
     /\ a.wroteNo > a.sawPort /\ b.wroteNo > a.sawPort

\* q made its scans after p had written its file
ScannedAfterWrite(p, q) == ret.procs[q].sawPort >= ret.procs[p].wroteNo

SamePortAndOctet(v, w) ==
  /\ vpnFiles[v] # NoFile /\ vpnFiles[w] # NoFile
  /\ ListenPortOf(v).ok /\ ListenPortOf(v) = ListenPortOf(w)
  /\ VPNOctetOf(v).ok /\ VPNOctetOf(v).vpnOctet = VPNOctetOf(w).vpnOctet

\* C21: two AddVPN invocations of different names that both scan before either
\* writes both succeed and leave two files with the same ListenPort and the same
\* vpn octet; when one scans after the other has written, the two files differ
\* in both
C21_RacingAddVPNShareAllocation ==
  \A p \in Procs, q \in Procs :
    LET a == ret.procs[p]
        b == ret.procs[q]
    IN (ret.fn = "race" /\ p # q /\ a.op = "AddVPN" /\ b.op = "AddVPN" /\ a.vpn # b.vpn) =>
         /\ (HasWritten(a) /\ HasWritten(b) /\ ScannedBeforeEitherWrote(p, q)) =>
              /\ a.err = "" /\ b.err = ""
              /\ SamePortAndOctet(a.vpn, b.vpn)
         /\ (BothAddedVPN(p, q) /\ ScannedAfterWrite(p, q)) =>
              /\ ListenPortOf(a.vpn).n < ListenPortOf(b.vpn).n
              /\ VPNOctetOf(a.vpn).vpnOctet < VPNOctetOf(b.vpn).vpnOctet

\* both invocations returned and the two files carry one port and one octet
C21_Witness ==
  /\ ret.fn = "race"
  /\ BothAddedVPN(1, 2)
  /\ ScannedBeforeEitherWrote(1, 2)
  /\ ret.procs[1].err = "" /\ ret.procs[2].err = ""
  /\ SamePortAndOctet(<<"h">>, <<"w">>)

ClientAddress(v, p) == firstSectionValue(peerFiles[<<v, p>>], Interface, <<"A","d","d","r","e","s","s">>)

\* p and q are AddPeer invocations on one VPN for different peers that read the
\* same VPN file, both before either wrote it
ReadBeforeEitherWrote(p, q) ==
  LET a == ret.procs[p]
      b == ret.procs[q]
  IN /\ a.op = "AddPeer" /\ b.op = "AddPeer"
     /\ a.vpn = b.vpn /\ a.peer # b.peer
     /\ a.saw = b.saw
     /\ a.wroteNo > a.saw /\ b.wroteNo > a.wroteNo

\* C22: when two AddPeer invocations on v read v's file before either writes
\* it, both succeed, both client files exist with one address, and once both
\* have returned v's file is what the later writer wrote: the file both read
\* plus the later writer's block, the earlier writer's block gone
C22_LastWriterWins ==
  \A p \in Procs, q \in Procs :
    LET a == ret.procs[p]
        b == ret.procs[q]
    IN (ret.fn = "race" /\ p # q /\ ReadBeforeEitherWrote(p, q)
        /\ a.pc = "done" /\ b.pc = "done") =>
         /\ a.err = "" /\ b.err = ""
         /\ peerFiles[<<a.vpn, a.peer>>] # NoFile
         /\ peerFiles[<<b.vpn, b.peer>>] # NoFile
         /\ ClientAddress(a.vpn, a.peer) = ClientAddress(b.vpn, b.peer)
         /\ vpnFiles[b.vpn] = b.updated
         /\ Cardinality(TaggedBlocks(vpnFiles[b.vpn], b.vpn, b.peer))
              = Cardinality(TaggedBlocks(b.content, b.vpn, b.peer)) + 1
         /\ Cardinality(TaggedBlocks(vpnFiles[a.vpn], a.vpn, a.peer))
              = Cardinality(TaggedBlocks(a.content, a.vpn, a.peer))
         /\ Cardinality(PeerHeaders(vpnFiles[b.vpn])) = Cardinality(PeerHeaders(b.content)) + 1

C22_Witness ==
  /\ ret.fn = "race"
  /\ ReadBeforeEitherWrote(1, 2)
  /\ ret.procs[1].pc = "done" /\ ret.procs[2].pc = "done"
  /\ ret.procs[1].err = "" /\ ret.procs[2].err = ""
  /\ ClientAddress(<<"h">>, <<"a">>) = ClientAddress(<<"h">>, <<"a","b">>)
  /\ ClientAddress(<<"h">>, <<"a">>) # <<>>
  /\ Cardinality(PeerHeaders(vpnFiles[<<"h">>])) = 1
  /\ \E p \in PeerNames : TaggedBlocks(vpnFiles[<<"h">>], <<"h">>, p) = {}

\* C23: the [Interface] section

\* the key lines of the [Interface] section: from its header to the next
\* section header, blank and comment lines left out
InterfaceLines(content) ==
  LET heads == {i \in 1..Len(content) : content[i] = <<"[","I","n","t","e","r","f","a","c","e","]">>}
      first == CHOOSE i \in heads : \A k \in heads : i <= k
      after == {j \in (first + 1)..Len(content) :
                  HasPrefix(content[j], <<"[">>) /\ HasSuffix(content[j], <<"]">>)}
      stop == IF after = {} THEN Len(content) + 1
              ELSE CHOOSE j \in after : \A k \in after : j <= k
      KeyLine(l) == l # <<>> /\ ~HasPrefix(l, <<"#">>) /\ ~HasPrefix(l, <<";">>)
  IN IF heads = {} THEN <<>>
     ELSE SelectSeq(SubSeq(content, first + 1, stop - 1), KeyLine)

KeyCount(lines, key) ==
  Cardinality({i \in 1..Len(lines) : HasPrefix(lines[i], key \o <<" ","="," ">>)})

OneOfEach(content) ==
  LET lines == InterfaceLines(content)
  IN /\ KeyCount(lines, <<"P","r","i","v","a","t","e","K","e","y">>) = 1
     /\ KeyCount(lines, <<"L","i","s","t","e","n","P","o","r","t">>) = 1
     /\ KeyCount(lines, <<"A","d","d","r","e","s","s">>) = 1

\* C23: after every call each VPN file's [Interface] section holds exactly one
\* PrivateKey, one ListenPort and one Address, and AddPeer and DeletePeer leave
\* the key lines of every [Interface] section as they were
C23_InterfaceSectionStable ==
  [][/\ \A v \in VPNNames : vpnFiles'[v] # NoFile => OneOfEach(vpnFiles'[v])
     /\ last'.op \in {"AddPeer", "DeletePeer"} =>
          \A v \in VPNNames :
            /\ (vpnFiles[v] = NoFile) = (vpnFiles'[v] = NoFile)
            /\ InterfaceLines(vpnFiles'[v]) = InterfaceLines(vpnFiles[v])]_vars

\* DeletePeer took one of two blocks out of a VPN file
C23_Witness ==
  /\ last.op = "DeletePeer"
  /\ last.peer = <<"a","b">>
  /\ last.err = ""
  /\ last.vpn \in VPNNames
  /\ vpnFiles[last.vpn] # NoFile
  /\ Cardinality(PeerHeaders(vpnFiles[last.vpn])) = 1
  /\ TaggedBlocks(vpnFiles[last.vpn], last.vpn, <<"a">>) # {}
  /\ last.rep.warnings = <<>>
  /\ OneOfEach(vpnFiles[last.vpn])
  /\ Len(InterfaceLines(vpnFiles[last.vpn])) = 5

\* C24: render, then parse

\* the decimal digits of n, most significant first
Decimal(n) ==
  LET d(k) == <<"0", "1", "2", "3", "4", "5", "6", "7", "8", "9">>[k + 1]
  IN IF n < 10 THEN <<d(n)>>
     ELSE IF n < 100 THEN <<d(n \div 10), d(n % 10)>>
     ELSE IF n < 1000 THEN <<d(n \div 100), d((n \div 10) % 10), d(n % 10)>>
     ELSE <<d(n \div 10000), d((n \div 1000) % 10), d((n \div 100) % 10),
            d((n \div 10) % 10), d(n % 10)>>

\* C24: the ListenPort read back from a rendered VPN config is the decimal of
\* the port, its Address parses to (vpn octet, 1); the AllowedIPs read back from
\* a rendered server block is the one peer address, and so is the Address of a
\* rendered client config
C24_RenderParseRoundTrip ==
  /\ ret.fn = "renderVPNConfig" =>
       /\ ret.portText = Decimal(drawn.port)
       /\ Atoi(ret.portText) = [ok |-> TRUE, n |-> drawn.port]
       /\ parseBPAddress(SubnetPrefix, ret.addr).ok
       /\ parseBPAddress(SubnetPrefix, ret.addr).vpnOctet = drawn.octet
       /\ parseBPAddress(SubnetPrefix, ret.addr).hostOctet = 1
  /\ ret.fn = "renderServerPeerBlock" =>
       /\ ret.ips = <<ret.peerAddr>>
       /\ ret.peerAddr = <<"6","9",".","0",".">> \o Decimal(drawn.octet) \o <<".">> \o Decimal(drawn.host) \o <<"/","3","2">>
  /\ ret.fn = "renderClientPeerConfig" =>
       /\ ret.addr = ret.peerAddr
       /\ ret.peerAddr = <<"6","9",".","0",".">> \o Decimal(drawn.octet) \o <<".">> \o Decimal(drawn.host) \o <<"/","3","2">>

C24_Witness ==
  /\ ret.fn = "renderVPNConfig"
  /\ drawn.port = MaxPort
  /\ drawn.octet = 100
  /\ ret.portText = <<"5","5","2","0","7">>
  /\ ret.addr = <<"6","9",".","0",".","1","0","0",".","1","/","2","4">>

-----------------------------------------------------------------------------
(* C25 - C26: external commands and repeated setup                         *)

\* the program named by each command line the manager builds
ProgramOf(command) ==
  CASE command = "sysctl --system" -> "sysctl"
    [] command \in {"systemctl enable --now", "systemctl disable --now", "systemctl restart"} -> "systemctl"
    [] OTHER -> "wg-quick"

\* whether the call's own conditions on the disk it started from are met
Accepted(call, before) ==
  CASE call.op = "SetupServer" -> TRUE
    [] call.op = "AddVPN" -> before.vpn[call.vpn] = NoFile
    [] call.op = "DeleteVPN" -> before.vpn[call.vpn] # NoFile
    [] call.op = "AddPeer" ->
         before.vpn[call.vpn] # NoFile /\ before.peer[<<call.vpn, call.peer>>] = NoFile
    [] OTHER -> before.peer[<<call.vpn, call.peer>>] # NoFile

\* the command lines an accepted call goes on to attempt, in order
Attempts(call) ==
  LET sd == "systemctl" \in drawn.sys.has
  IN CASE call.op = "SetupServer" ->
            IF drawn.sysctlFile = <<>> THEN <<>> ELSE <<"sysctl --system">>
       [] call.op = "AddVPN" -> IF sd THEN <<"systemctl enable --now">> ELSE <<"wg-quick up">>
       [] call.op = "DeleteVPN" -> IF sd THEN <<"systemctl disable --now">> ELSE <<"wg-quick down">>
       [] OTHER -> IF sd THEN <<"systemctl restart">> ELSE <<"wg-quick down", "wg-quick up">>

\* the run of the command was started
WasRun(act) == act.message \notin {"command not available", "not running as root"}

Fails(command) == command \in drawn.sys.failing \/ ProgramOf(command) \in drawn.sys.failing

\* C25: a command is run only when its program is installed and the process
\* is root; each command attempted leaves exactly one RuntimeAction, with
\* status "executed" when it ran and succeeded and "suggested" when it was
\* not run or its run failed; and whether the call succeeds depends only on
\* the disk, never on the outcome of the command
C25_CommandsRunOnlyAsRootAndRecorded ==
  (ret.fn = "setup" /\ calls > 0) =>
    LET acts == last.rep.runtime
        want == IF last.err = "" THEN Attempts(last) ELSE <<>>
    IN /\ (last.err = "") <=> Accepted(last, ret.before)
       /\ Len(acts) = Len(want)
       /\ \A i \in 1..Len(acts) :
            LET able == ProgramOf(want[i]) \in drawn.sys.has /\ drawn.sys.root
            IN /\ acts[i].command = want[i]
               /\ WasRun(acts[i]) <=> able
               /\ acts[i].status = IF able /\ ~Fails(want[i]) THEN "executed" ELSE "suggested"

\* an accepted call whose command ran and failed: one "suggested" action and
\* a nil error
C25_Witness ==
  /\ ret.fn = "setup"
  /\ last.op = "AddVPN"
  /\ last.err = ""
  /\ Len(last.rep.runtime) = 1
  /\ WasRun(last.rep.runtime[1])
  /\ last.rep.runtime[1].status = "suggested"

\* C26: a SetupServer call that directly follows a SetupServer call leaves
\* the directories, every file and the sysctl file as they were and reports
\* no change
C26_SetupServerIdempotent ==
  (ret.fn = "setup" /\ last.op = "SetupServer" /\ ret.prevOp = "SetupServer") =>
    /\ SetupDisk = ret.before
    /\ last.rep.changes = <<>>
    /\ last.err = ""

\* two SetupServer calls in a row with the sysctl file configured
C26_Witness ==
  /\ ret.fn = "setup"
  /\ last.op = "SetupServer"
  /\ ret.prevOp = "SetupServer"
  /\ drawn.sysctlFile # <<>>
  /\ ret.sysctl = SysctlText
  /\ wgDir
  /\ peersDir

-----------------------------------------------------------------------------
(* C27: AddPeer on a malformed VPN file                                    *)

Malformed(d) == d.keyKind # "ok" \/ d.portKind # "ok" \/ d.addrKind # "ok"

\* C27: when the VPN's file has no PrivateKey, ListenPort or Address, or an
\* empty one, or a ListenPort that is not an integer, or an Address that
\* does not parse under the configured prefix, AddPeer returns an error,
\* leaves the VPN's file as it was and creates no client file
C27_MalformedVPNFileRejected ==
  [][(drawn.kind = "edited" /\ Malformed(drawn) /\ last'.op = "AddPeer")
       => /\ last'.err # ""
          /\ vpnFiles' = vpnFiles
          /\ peerFiles' = peerFiles
          /\ \A c \in Range(last'.rep.changes) : c.path.kind \notin {"vpnconf", "peerconf"}]_vars

\* AddPeer was refused for a ListenPort that is not a number, everything
\* else in place
C27_Witness ==
  /\ drawn.kind = "edited"
  /\ drawn.keyKind = "ok"
  /\ drawn.portKind = "garbage"
  /\ drawn.addrKind = "ok"
  /\ last.op = "AddPeer"
  /\ last.err = "invalid ListenPort"
  /\ ret.ok
  /\ vpnFiles[<<"h">>] = EditedVPNFile(<<"h">>, drawn)
  /\ peerFiles[<<<<"h">>, <<"a">>>>] = NoFile

-----------------------------------------------------------------------------
(* C28: what a successful AddPeer leaves on disk                           *)

\* the port after the last colon of a client file's Endpoint
EndpointPort(conf) ==
  LET e == firstSectionValue(conf, Peer, <<"E","n","d","p","o","i","n","t">>)
      colons == {k \in 1..Len(e) : e[k] = ":"}
      i == CHOOSE k \in colons : \A j \in colons : j <= k
  IN IF colons = {} THEN [ok |-> FALSE, n |-> 0] ELSE Atoi(SubSeq(e, i + 1, Len(e)))

\* C28: a successful AddPeer(v, p) adds exactly one [Peer] block to v's file,
\* the new block's header sits directly under the tag line of (v, p), its
\* AllowedIPs is the Interface Address of the client file written for p,
\* which is <prefix>.<v's octet>.<allocated host>/<PeerMask>, and the port
\* of the client file's Endpoint is v's ListenPort
C28_AddPeerWritesMatchingBlockAndClient ==
  [][(ret.fn = "none" /\ calls' = calls + 1 /\ last'.op = "AddPeer" /\ last'.err = "") =>
       \A v \in {last'.vpn}, p \in {last'.peer} :
       \A old \in {vpnFiles[v]}, new \in {vpnFiles'[v]}, client \in {peerFiles'[<<v, p>>]} :
       \A heads \in {PeerHeaders(new)}, ips \in {allSectionValues(new, Peer, <<"A","l","l","o","w","e","d","I","P","s">>)} :
       \A octet \in {parseBPAddress(SubnetPrefix, firstSectionValue(old, Interface, <<"A","d","d","r","e","s","s">>))} :
       \A host \in {nextPeerHostOctet(old, octet.vpnOctet)} :
       \A port \in {Atoi(firstSectionValue(old, Interface, <<"L","i","s","t","e","n","P","o","r","t">>))} :
       \E h \in heads :
          /\ \A j \in heads : j <= h
          /\ Cardinality(heads) = Cardinality(PeerHeaders(old)) + 1
          /\ \A i \in PeerHeaders(old) : i < h /\ new[i] = old[i]
          /\ h > 1
          /\ new[h - 1] = TagLine(v, p)
          /\ Len(ips) = Cardinality(heads)
          /\ client # NoFile
          /\ ips[Len(ips)] = firstSectionValue(client, Interface, <<"A","d","d","r","e","s","s">>)
          /\ octet.ok
          /\ host.ok
          /\ ips[Len(ips)] = SubnetPrefix \o <<".">> \o Decimal(octet.vpnOctet) \o <<".">>
                              \o Decimal(host.n) \o <<"/">> \o Decimal(PeerMask)
          /\ port.ok
          /\ EndpointPort(client) = port]_vars

\* a second peer was added to the second VPN: the new block follows an older
\* one and the port is not the first of the range
C28_Witness ==
  /\ ret.fn = "none"
  /\ last.op = "AddPeer"
  /\ last.err = ""
  /\ last.vpn = <<"w">>
  /\ Cardinality(PeerHeaders(vpnFiles[<<"w">>])) = 2
  /\ EndpointPort(peerFiles[<<<<"w">>, last.peer>>]) = [ok |-> TRUE, n |-> MinPort + 1]

-----------------------------------------------------------------------------
(* C29: AddPeer then DeletePeer of the same peer                           *)

\* the file AddPeer found was in rendered form and none of its tags, nor the
\* name of a peer added later, contains the name of the peer under test
RoundTripCase ==
  /\ ret.fn = "round"
  /\ ret.stage = "deleted"
  /\ drawn.ending = "one"
  /\ \A i \in 1..Len(drawn.blocks) : ~Contains(drawn.blocks[i].tag, ret.peer)
  /\ \A q \in ret.others : ~Contains(q, ret.peer)

\* C29 as stated: after AddPeer(v, p) and DeletePeer(v, p) the VPN's file is
\* byte for byte the file AddPeer found and p has no client file, whether
\* or not other peers were added in between
C29_RoundTripRestoresFile ==
  RoundTripCase =>
    /\ last.err = ""
    /\ vpnFiles[BlockVPN] = ret.before
    /\ peerFiles[<<BlockVPN, ret.peer>>] = NoFile

\* C29 amended: DeletePeer(v, p) removes exactly the lines AddPeer(v, p)
\* appended: the file is the one AddPeer found, followed by whatever was
\* appended behind p's block after it was added; with nothing added behind it
\* the file is byte for byte the one AddPeer found; p has no client file
C29_RoundTripRemovesWhatWasAppended ==
  RoundTripCase =>
    /\ last.err = ""
    /\ peerFiles[<<BlockVPN, ret.peer>>] = NoFile
    /\ SubSeq(ret.later, 1, Len(ret.added)) = ret.added
    /\ vpnFiles[BlockVPN] = SubSeq(ret.before, 1, Len(ret.before) - 1)
                            \o SubSeq(ret.later, Len(ret.added), Len(ret.later))
    /\ (ret.others = {}) => vpnFiles[BlockVPN] = ret.before

\* the peer was added behind an older block, another peer was added behind
\* it, and it was deleted again
C29_Witness ==
  /\ RoundTripCase
  /\ Len(drawn.blocks) > 0
  /\ ret.others # {}
  /\ last.op = "DeletePeer"
  /\ last.err = ""
  /\ vpnFiles[BlockVPN] # ret.before
  /\ TaggedBlocks(vpnFiles[BlockVPN], BlockVPN, ret.peer) = {}

-----------------------------------------------------------------------------
(* C30: the lines removePeerBlock drops                                    *)

\* the lines of a text: what strings.Split gives without the empty piece
\* behind a final newline
TextLines(content) ==
  IF content[Len(content)] = <<>> THEN SubSeq(content, 1, Len(content) - 1) ELSE content

RECURSIVE StripBlankEnd(_)
\* the lines without the empty lines at the end
StripBlankEnd(lines) ==
  IF lines # <<>> /\ lines[Len(lines)] = <<>>
  THEN StripBlankEnd(SubSeq(lines, 1, Len(lines) - 1))
  ELSE lines

RECURSIVE Without(_, _, _)
\* the lines from index i on whose index is not dropped, in order
Without(lines, dropped, i) ==
  IF i > Len(lines) THEN <<>>
  ELSE IF i \in dropped THEN Without(lines, dropped, i + 1)
  ELSE <<lines[i]>> \o Without(lines, dropped, i + 1)

\* the section header that ends the block of the header at i, or one past the end
NextSection(in, i) ==
  LET hs == {k \in (i + 1)..Len(in) : isSectionHeader(TrimSpace(in[k]))}
  IN IF hs = {} THEN Len(in) + 1 ELSE CHOOSE k \in hs : \A m \in hs : k <= m

MetaLineOf(in, i) ==
  IF i > 1 /\ HasPrefix(TrimSpace(in[i - 1]), TagPrefix) THEN TrimSpace(in[i - 1]) ELSE <<>>

\* the [Peer] headers whose block matches the reference or the address
MatchedHeaders(in, ref, ip) ==
  {i \in PeerHeaders(in) :
     peerBlockMatches(SubSeq(in, i, NextSection(in, i) - 1), MetaLineOf(in, i), ref, ip)}

\* the first line of a block with its tag line
FirstLine(in, i) == IF MetaLineOf(in, i) # <<>> THEN i - 1 ELSE i

\* the last line of a block before the blank and comment lines at its end
CoreEnd(in, i) ==
  LET body == {k \in i..(NextSection(in, i) - 1) : ~IsCommentOrBlank(TrimSpace(in[k]))}
  IN CHOOSE k \in body : \A m \in body : m <= k

\* the tag line and the lines of every matched block
BlockLines(in, matched) == UNION {FirstLine(in, i)..CoreEnd(in, i) : i \in matched}

\* the blank lines directly above a matched block
BlanksDirectlyAbove(in, matched) ==
  {FirstLine(in, i) - 1 : i \in {m \in matched : FirstLine(in, m) > 1
                                   /\ TrimSpace(in[FirstLine(in, m) - 1]) = <<>>}}

\* C30 as stated: the lines of the result are the lines of the input without
\* the lines of the matched blocks, their tag lines and, for each of them, at
\* most the one blank line directly above it; nothing else is dropped
C30_DropsOnlyMatchedBlocks ==
  (ret.fn = "removed") =>
    \A in \in {vpnFiles[BlockVPN]} :
    \A matched \in {MatchedHeaders(in, [VPN |-> BlockVPN, Peer |-> ret.peer], ret.probe)} :
    \A must \in {BlockLines(in, matched)} :
      /\ ret.removed <=> matched # {}
      /\ \E B \in SUBSET BlanksDirectlyAbove(in, matched) :
           TextLines(ret.content) = Without(TextLines(in), must \cup B, 1)

\* C30 amended: besides the lines of the matched blocks and their tag lines,
\* the result lacks at most one blank line for each matched block, the one
\* directly above it once the lines already removed are taken out, and the
\* empty lines at the end of the text; it ends in one newline or is empty
C30_DropsMatchedBlocksAndTrailingBlanks ==
  (ret.fn = "removed") =>
    \A in \in {vpnFiles[BlockVPN]} :
    \A matched \in {MatchedHeaders(in, [VPN |-> BlockVPN, Peer |-> ret.peer], ret.probe)} :
    \A must \in {BlockLines(in, matched)} :
      /\ ret.removed <=> matched # {}
      /\ \E B \in SUBSET {k \in 1..Len(in) : TrimSpace(in[k]) = <<>>} :
           /\ Cardinality(B) <= Cardinality(matched)
           /\ \A b \in B : \E i \in matched :
                /\ b < FirstLine(in, i)
                /\ \A k \in (b + 1)..(FirstLine(in, i) - 1) : k \in must \cup B
           /\ StripBlankEnd(TextLines(ret.content))
                = StripBlankEnd(Without(TextLines(in), must \cup B, 1))
      /\ \/ ret.content = EmptyContent
         \/ /\ Len(ret.content) >= 2
            /\ ret.content[Len(ret.content)] = <<>>
            /\ ret.content[Len(ret.content) - 1] # <<>>

\* the first of two blocks was removed with its tag line and the blank line
\* above it, and the second block kept its blank line and its tag line
C30_Witness ==
  /\ ret.fn = "removed"
  /\ ret.removed
  /\ drawn.first.present
  /\ drawn.first.tag = <<"a","b">>
  /\ drawn.first.gap = 1
  /\ drawn.second.present
  /\ drawn.second.tag = <<"a">>
  /\ drawn.second.gap = 1
  /\ ret.peer = <<"a","b">>
  /\ TaggedBlocks(ret.content, BlockVPN, <<"a","b">>) = {}
  /\ Cardinality(TaggedBlocks(ret.content, BlockVPN, <<"a">>)) = 1
  /\ Len(ret.content) = Len(vpnFiles[BlockVPN]) - 6

-----------------------------------------------------------------------------
(* C31: the ending of the text removePeerBlock returns                     *)

\* a text that ends in exactly one newline: its last line is empty and the
\* line before it is not
EndsInOneNewline(content) ==
  /\ Len(content) >= 2
  /\ content[Len(content)] = <<>>
  /\ content[Len(content) - 1] # <<>>

\* C31: the text removePeerBlock returns is empty or ends in exactly one
\* newline, whatever the ending of the text it was given and whether or not
\* a block was removed
C31_ResultEmptyOrOneNewline ==
  (ret.fn = "removePeerBlock") =>
    (ret.content = EmptyContent \/ EndsInOneNewline(ret.content))

\* a text given with two newlines at its end and no matching block comes
\* back with one
C31_Witness ==
  /\ ret.fn = "removePeerBlock"
  /\ drawn.kind = "ending"
  /\ drawn.ending = "two"
  /\ ~drawn.blank
  /\ ~ret.removed
  /\ ~EndsInOneNewline(vpnFiles[BlockVPN])
  /\ EndsInOneNewline(ret.content)

-----------------------------------------------------------------------------
(* C32: firstSectionValue against allSectionValues                         *)

\* the section a drawn line sits in: the one named by the nearest header
\* above it, the empty name when there is none
SectionAt(lines, i) ==
  LET hs == {k \in 1..(i - 1) : lines[k].role = "header"}
  IN IF hs = {} THEN <<>> ELSE lines[CHOOSE k \in hs : \A m \in hs : m <= k].name

RECURSIVE ValuesFrom(_, _, _, _)
\* the values of the key lines, from line i on, that sit in the section and
\* carry the key, in the order of the lines
ValuesFrom(lines, i, sectionName, lower) ==
  IF i > Len(lines) THEN <<>>
  ELSE IF lines[i].role = "kv" /\ lines[i].name = lower /\ SectionAt(lines, i) = sectionName
  THEN <<lines[i].val>> \o ValuesFrom(lines, i + 1, sectionName, lower)
  ELSE ValuesFrom(lines, i + 1, sectionName, lower)

\* C32: firstSectionValue returns the first element of allSectionValues, or
\* the empty string when there is none; allSectionValues returns the values
\* of the lines whose key is the one asked for, upper and lower case taken
\* as equal, and whose nearest header above names the section asked for;
\* blank lines and lines starting with # or ; give no value and name no
\* section
C32_FirstIsHeadOfAll ==
  (ret.fn = "scanned") =>
    /\ ret.first = IF ret.all = <<>> THEN <<>> ELSE ret.all[1]
    /\ ret.all = ValuesFrom(drawn.lines, 1, ret.section, ret.lower)

\* a header, a commented-out key and two key lines in other case under it:
\* the first value is the first of the two collected
C32_Witness ==
  /\ ret.fn = "scanned"
  /\ Len(drawn.lines) = 3
  /\ drawn.lines[1].role = "header"
  /\ drawn.lines[2].role = "kv"
  /\ drawn.lines[3].text = <<"K","e","y"," ","="," ","1">>
  /\ ret.section = <<"B">>
  /\ ret.key = <<"K","e","y">>
  /\ ret.all = <<<<"2","=","3">>, <<"1">>>>
  /\ ret.first = <<"2","=","3">>

-----------------------------------------------------------------------------
(* C33: the addresses of the client files on disk                          *)

ClientFiles == {r \in VPNNames \X PeerNames : peerFiles[r] # NoFile}

\* C33: no two client peer files on disk carry the same Interface Address,
\* after any sequence of AddVPN, DeleteVPN, AddPeer and DeletePeer calls
\* from the empty base directory
C33_ClientAddressesDistinct ==
  (ret.fn = "none") =>
    \A r \in ClientFiles, t \in ClientFiles :
      (r # t) => ClientAddress(r[1], r[2]) # ClientAddress(t[1], t[2])

-----------------------------------------------------------------------------
(* C34: what a failed write or removal leaves behind                       *)

\* the last call was of the drawn operation, would have succeeded with
\* nothing failing, and the drawn call in it failed
Struck(op, at) ==
  /\ ret.fn = "fault"
  /\ last.op = op
  /\ drawn.op = op
  /\ drawn.at = at
  /\ ret.cleanErr = ""

\* the last call had a block to remove, so that it rewrote the VPN's file
Rewrote == ret.before.vpn[last.vpn] # NoFile /\ ret.clean.vpn[last.vpn] # ret.before.vpn[last.vpn]

LastPeer == <<last.vpn, last.peer>>

\* what holds of every failure but that of AddPeer's write of the client file
OrderAndNoRollback ==
  /\ Struck("AddPeer", "vpnconf") =>
       /\ last.err # ""
       /\ peerFiles = ret.before.peer
  /\ (Struck("DeletePeer", "vpnconf") /\ Rewrote) =>
       /\ last.err # ""
       /\ peerFiles = ret.before.peer
       /\ peerFiles[LastPeer] # NoFile
  /\ (Struck("DeletePeer", "remove") /\ Rewrote) =>
       /\ last.err # ""
       /\ vpnFiles[last.vpn] = ret.clean.vpn[last.vpn]
       /\ peerFiles = ret.before.peer

\* C34 as stated: when AddPeer's write of the client file fails, the error
\* is returned, the VPN's file keeps the new block and there is no client
\* file; when AddPeer's write of the VPN's file fails no client file is
\* written; when DeletePeer's rewrite of the VPN's file fails the client file
\* stays; nothing is rolled back
C34_FailedClientWriteLeavesNoFile ==
  /\ OrderAndNoRollback
  /\ Struck("AddPeer", "peerconf") =>
       /\ last.err # ""
       /\ vpnFiles[last.vpn] = ret.clean.vpn[last.vpn]
       /\ TaggedBlocks(vpnFiles[last.vpn], last.vpn, last.peer) # {}
       /\ peerFiles[LastPeer] = NoFile

\* C34 amended: as above, but after a failed write of the client file the
\* client file is absent only when the write failed before the file was
\* opened; when os.WriteFile failed part-way the file is there, truncated to
\* what was written
C34_FailedClientWriteLeavesNoWholeFile ==
  /\ OrderAndNoRollback
  /\ Struck("AddPeer", "peerconf") =>
       /\ last.err # ""
       /\ vpnFiles[last.vpn] = ret.clean.vpn[last.vpn]
       /\ TaggedBlocks(vpnFiles[last.vpn], last.vpn, last.peer) # {}
       /\ peerFiles[LastPeer] # ret.clean.peer[LastPeer]
       /\ peerFiles[LastPeer] = IF drawn.how = "before" THEN NoFile
                                ELSE PartialWrite(ret.clean.peer[LastPeer], drawn.keep)

\* AddPeer's write of the client file failed part-way: the error came back,
\* the block is in the VPN's file and a truncated client file is on disk
C34_Witness ==
  /\ Struck("AddPeer", "peerconf")
  /\ drawn.how = "partial"
  /\ drawn.keep = 2
  /\ last.err # ""
  /\ TaggedBlocks(vpnFiles[last.vpn], last.vpn, last.peer) # {}
  /\ Len(peerFiles[LastPeer]) = 2

=============================================================================
